---- MODULE Spec2Model ----
(***************************************************************************)
(* State-machine model of the LC-MS deconvolution core of lcms-desktop:    *)
(*   backend/lcms_app/analysis.py  (peak picking, charge-ladder engine,    *)
(*                                  mass estimator, singly-charged         *)
(*                                  detector, spectrum summing)            *)
(*   backend/server.py             (the /api/deconvolute endpoint and the  *)
(*                                  default-report orchestrator)           *)
(*                                                                         *)
(* Numbers.  m/z values and masses are fixed-point integers, MzScale model *)
(* units per Dalton (one unit = 0.5e-5 Da), so that the proton mass        *)
(* 1.00784 and the midpoint of two masses are exact.  Intensities are      *)
(* integers.  Relative tolerances are parts per million.  Every comparison *)
(* of the source is evaluated exactly (cross-multiplied, never rounded).   *)
(* Sequences are 1-based: the peak index i of the model is the index i-1   *)
(* of the numpy arrays.                                                    *)
(*                                                                         *)
(* Not represented: mass_std (np.std), a floating point statistic that the *)
(* engine computes and stores but never reads.                             *)
(***************************************************************************)
EXTENDS Integers, Sequences, FiniteSets, TLC

MzScale == 2 * 10^5
Million == 10^6

Da(n) == n * MzScale

Abs(x) == IF x < 0 THEN -x ELSE x
Max2(a, b) == IF a >= b THEN a ELSE b
Min2(a, b) == IF a <= b THEN a ELSE b

\* floor(a*b/c) for a >= 0, b >= 0, c > 0 without forming a*b
MulDivFloor(a, b, c) == (a \div c) * b + ((a % c) * b) \div c
\* TRUE iff a*b is an exact multiple of c
MulDivExact(a, b, c) == ((a % c) * b) % c = 0

\* d / m <= ppm * 1e-6   (d >= 0, m > 0)
RelLeq(d, m, ppm) == d <= MulDivFloor(m, ppm, Million)
\* d / m < ppm * 1e-6    (d >= 0, m > 0)
RelLess(d, m, ppm) ==
    IF MulDivExact(m, ppm, Million)
    THEN d < MulDivFloor(m, ppm, Million)
    ELSE d <= MulDivFloor(m, ppm, Million)

SeqToSet(s) == {s[i] : i \in 1..Len(s)}

RECURSIVE SumSeq(_)
SumSeq(s) == IF s = <<>> THEN 0 ELSE Head(s) + SumSeq(Tail(s))

RECURSIVE SetToSortedSeq(_)
\* sorted(set(...)): ascending sequence of a finite set of integers
SetToSortedSeq(S) ==
    IF S = {} THEN <<>>
    ELSE LET m == CHOOSE x \in S : \A y \in S : x <= y
         IN <<m>> \o SetToSortedSeq(S \ {m})

\* sorted(list) for a list of integers, ascending
RECURSIVE InsertAsc(_, _)
InsertAsc(s, x) ==
    IF s = <<>> THEN <<x>>
    ELSE IF x < Head(s) THEN <<x>> \o s
    ELSE <<Head(s)>> \o InsertAsc(Tail(s), x)

RECURSIVE SortAsc(_)
SortAsc(s) == IF s = <<>> THEN <<>> ELSE InsertAsc(SortAsc(Tail(s)), Head(s))

\* np.median, doubled: the middle element twice, or the sum of the two middle
\* elements.  Median2(s) / 2 is the median.
MedianOfSorted2(t) ==
    IF Len(t) % 2 = 1 THEN 2 * t[(Len(t) + 1) \div 2]
    ELSE t[Len(t) \div 2] + t[(Len(t) \div 2) + 1]

Median2(s) == MedianOfSorted2(SortAsc(s))

\* list.sort(key=lambda p: p['intensity'], reverse=True): stable, descending
RECURSIVE InsertByIntensity(_, _)
InsertByIntensity(s, x) ==
    IF s = <<>> THEN <<x>>
    ELSE IF x.intensity > Head(s).intensity THEN <<x>> \o s
    ELSE <<Head(s)>> \o InsertByIntensity(Tail(s), x)

RECURSIVE SortByIntensityFrom(_, _)
SortByIntensityFrom(acc, s) ==
    IF s = <<>> THEN acc
    ELSE SortByIntensityFrom(InsertByIntensity(acc, Head(s)), Tail(s))

SortByIntensity(s) == SortByIntensityFrom(<<>>, s)

\* the sort key (num_charges, intensity), compared as Python compares tuples
QualityGreater(a, b) ==
    \/ a.num_charges > b.num_charges
    \/ a.num_charges = b.num_charges /\ a.intensity > b.intensity

\* list.sort(key=lambda x: (x['num_charges'], x['intensity']), reverse=True)
RECURSIVE InsertByQuality(_, _)
InsertByQuality(s, x) ==
    IF s = <<>> THEN <<x>>
    ELSE IF QualityGreater(x, Head(s)) THEN <<x>> \o s
    ELSE <<Head(s)>> \o InsertByQuality(Tail(s), x)

RECURSIVE SortByQualityFrom(_, _)
SortByQualityFrom(acc, s) ==
    IF s = <<>> THEN acc
    ELSE SortByQualityFrom(InsertByQuality(acc, Head(s)), Tail(s))

SortByQuality(s) == SortByQualityFrom(<<>>, s)

(***************************************************************************)
(* Signal primitives                                                       *)
(***************************************************************************)

\* np.diff(mz)
Diff(mz) == [i \in 1..(Len(mz) - 1) |-> mz[i + 1] - mz[i]]

\* float(np.median(np.diff(mz))), doubled
Resolution2(mz) == Median2(Diff(mz))

\* scipy.ndimage.gaussian_filter1d is library code outside the repository.
\* It is reached only when sigma_pts >= 0.5; the spectra of this model are
\* sampled coarsely enough (sigma_pts < 0.5) that _smooth_spectrum returns
\* its input, so this three-tap stand-in is never evaluated.
gaussian_filter1d(intensity) ==
    [i \in 1..Len(intensity) |->
        LET l == intensity[IF i = 1 THEN 1 ELSE i - 1]
            r == intensity[IF i = Len(intensity) THEN i ELSE i + 1]
        IN (l + 2 * intensity[i] + r) \div 4]

\* _smooth_spectrum(mz, intensity, fwhm_da); fwhm in model units.
\* sigma_pts = (fwhm / 2.3548) / resolution < 0.5
\*          <=>  fwhm * 10000 / 11774 < resolution
\*          <=>  2 * floor(fwhm * 10000 / 11774) < 2 * resolution   (integers)
SmoothSpectrum(mz, intensity, fwhm) ==
    IF Len(mz) < 2 \/ fwhm <= 0 THEN intensity
    ELSE IF Resolution2(mz) <= 0 THEN intensity
    ELSE IF 2 * MulDivFloor(fwhm, 10000, 11774) < Resolution2(mz) THEN intensity
    ELSE gaussian_filter1d(intensity)

\* max(2, int(pwhh / resolution)) if resolution > 0 else 2
MinDistancePts(mz, pwhh) ==
    LET res2 == IF Len(mz) > 1 THEN Resolution2(mz) ELSE 2 * MzScale
    IN IF res2 > 0 THEN Max2(2, (2 * pwhh) \div res2) ELSE 2

\* faulty variant of LocalMaxima: a plateau is not a maximum
LocalMaximaStrict(y) ==
    SelectSeq([i \in 1..Len(y) |-> i],
              LAMBDA i : /\ i > 1 /\ i < Len(y)
                         /\ y[i] > y[i - 1] /\ y[i] > y[i + 1])

\* the local maxima of _find_peaks_simple, ascending
LocalMaxima(y) ==
    SelectSeq([i \in 1..Len(y) |-> i],
              LAMBDA i : /\ i > 1 /\ i < Len(y)
                         /\ y[i] >= y[i - 1] /\ y[i] >= y[i + 1])

\* the greedy loop of _find_peaks_simple over the candidates in visiting order
RECURSIVE GreedyFilter(_, _, _, _)
GreedyFilter(order, blocked, filtered, min_distance_pts) ==
    IF order = <<>> THEN filtered
    ELSE LET idx == Head(order).idx
         IN IF idx \in blocked
            THEN GreedyFilter(Tail(order), blocked, filtered, min_distance_pts)
            ELSE GreedyFilter(Tail(order),
                     blocked \cup {idx + o : o \in (1 - min_distance_pts)..(min_distance_pts - 1)},
                     filtered \cup {idx}, min_distance_pts)

\* _find_peaks_simple(intensity, min_distance_pts)
FindPeaksSimple(y, min_distance_pts) ==
    IF Len(y) < 3 THEN <<>>
    ELSE LET cand == LocalMaxima(y)
             order == SortByIntensity([k \in 1..Len(cand) |->
                                         [idx |-> cand[k], intensity |-> y[cand[k]]]])
         IN IF cand = <<>> THEN <<>>
            ELSE SetToSortedSeq(GreedyFilter(order, {}, {}, min_distance_pts))

\* _parabolic_centroid(mz, intensity, peak_idx).  The apex offset
\* delta * dx is rounded toward zero to the model unit when it is not exact.
ParabolicCentroid(mz, y, i) ==
    IF i <= 1 \/ i >= Len(mz) THEN mz[i]
    ELSE LET y0 == y[i - 1]
             y1 == y[i]
             y2 == y[i + 1]
             denom == 2 * (y0 - 2 * y1 + y2)
             span == mz[i + 1] - mz[i - 1]
         IN IF denom = 0 THEN mz[i]
            ELSE IF y0 = y2 THEN mz[i]
            ELSE IF Abs(y0 - y2) >= Abs(denom)
                 THEN (IF (y0 - y2 > 0) = (denom > 0)
                       THEN mz[i] + span \div 2 ELSE mz[i] - span \div 2)
            ELSE IF (y0 - y2 > 0) = (denom > 0)
                 THEN mz[i] + MulDivFloor(span \div 2, Abs(y0 - y2), Abs(denom))
                 ELSE mz[i] - MulDivFloor(span \div 2, Abs(y0 - y2), Abs(denom))

\* lines 856-867 / 1227-1236: the picked peaks above the noise floor, in
\* ascending index order
PeakRecords(mz, inten, kept) ==
    [k \in 1..Len(kept) |->
        [mz |-> ParabolicCentroid(mz, inten, kept[k]),
         intensity |-> inten[kept[k]],
         index |-> kept[k]]]

\* faulty variant of PickedPeaks: the noise cutoff is not applied
PickedPeaksNoCutoff(mz, inten, noise_cutoff, min_distance_pts) ==
    PeakRecords(mz, inten, FindPeaksSimple(inten, min_distance_pts))

\* the peaks of the smoothed spectrum inten that are not below the cutoff
PickedPeaks(mz, inten, noise_cutoff, min_distance_pts) ==
    PeakRecords(mz, inten,
                SelectSeq(FindPeaksSimple(inten, min_distance_pts),
                          LAMBDA i : ~(inten[i] < noise_cutoff)))

PeaksAboveNoise(mz, intensity, noise_cutoff, pwhh) ==
    PickedPeaks(mz, SmoothSpectrum(mz, intensity, pwhh), noise_cutoff,
                MinDistancePts(mz, pwhh))

(***************************************************************************)
(* Mass estimator                                                          *)
(***************************************************************************)

BroadChargeThreshold == 20

\* PROTON_MASS = 1.007276 if use_monoisotopic_proton else 1.00784.  The
\* monoisotopic value is not a whole number of model units (201455.2); the
\* configurations of this model use the average mass, which is exact.
ProtonMass(use_monoisotopic_proton) ==
    IF use_monoisotopic_proton THEN 201455 ELSE 201568

\* the positions of a boolean mask that are set, ascending
Where(n, Keep(_)) == SelectSeq([i \in 1..n |-> i], Keep)

Pick(arr, idxs) == [k \in 1..Len(idxs) |-> arr[idxs[k]]]

\* np.abs(masses - median), doubled (the median may fall between two masses)
AbsDevs2(masses, median2) == [i \in 1..Len(masses) |-> Abs(2 * masses[i] - median2)]

\* faulty variant of InlierMask: an ion exactly at the threshold is kept
InlierMaskInclusive(abs_devs2, mad4) ==
    IF mad4 < 4 * (MzScale \div 10)
    THEN Where(Len(abs_devs2), LAMBDA i : abs_devs2[i] <= 2 * 5 * MzScale)
    ELSE Where(Len(abs_devs2), LAMBDA i : 2 * abs_devs2[i] <= 3 * mad4)

\* lines 740-744: keep = abs_devs < 5.0 if mad < 0.1, else abs_devs < 3 * mad
\* (mad4 is the mad doubled twice)
InlierMask(abs_devs2, mad4) ==
    IF mad4 < 4 * (MzScale \div 10)
    THEN Where(Len(abs_devs2), LAMBDA i : abs_devs2[i] < 2 * 5 * MzScale)
    ELSE Where(Len(abs_devs2), LAMBDA i : 2 * abs_devs2[i] < 3 * mad4)

\* lines 747-748: fewer than 3 survivors keeps everything
KeepOrAll(n, keep) == IF Len(keep) < 3 THEN [i \in 1..n |-> i] ELSE keep

InliersByDeviation(abs_devs2) ==
    KeepOrAll(Len(abs_devs2), InlierMask(abs_devs2, Median2(abs_devs2)))

\* _reject_mass_outliers(masses, intensities): the kept positions
RejectMassOutliers(masses) ==
    IF Len(masses) < 4 THEN [i \in 1..Len(masses) |-> i]
    ELSE InliersByDeviation(AbsDevs2(masses, Median2(masses)))

\* np.median(values) for values whose pairwise midpoints are whole units
Median(values) == Median2(values) \div 2

\* faulty variant of PerChargeBest: the first ion of each charge, whatever
\* its intensity
PerChargeFirst(charges, intensities) ==
    Where(Len(charges), LAMBDA i : \A j \in 1..(i - 1) : charges[j] # charges[i])

\* first position of each distinct charge, in order of first appearance, with
\* the position of the most intense ion of that charge (first one on ties)
PerChargeBest(charges, intensities) ==
    LET n == Len(charges)
        firsts == Where(n, LAMBDA i : \A j \in 1..(i - 1) : charges[j] # charges[i])
        best(z) == CHOOSE i \in 1..n :
                     /\ charges[i] = z
                     /\ \A j \in 1..n : charges[j] = z =>
                          \/ intensities[j] < intensities[i]
                          \/ intensities[j] = intensities[i] /\ j >= i
    IN [k \in 1..Len(firsts) |-> best(charges[firsts[k]])]

MaxOfSeq(s) == CHOOSE x \in SeqToSet(s) : \A y \in SeqToSet(s) : x >= y

\* lines 807-810: the intensity-weighted mean of the per-charge masses,
\* rounded down to the model unit, or the median when the weights vanish
WeightedMean(pc_masses, pc_intensities, mass_median) ==
    IF SumSeq(pc_intensities) <= 0 THEN mass_median
    ELSE SumSeq([i \in 1..Len(pc_masses) |-> pc_masses[i] * pc_intensities[i]])
             \div SumSeq(pc_intensities)

\* lines 801-805: the core of the envelope, pc_intensities >= 0.35 * max
CoreMean(pc_masses, pc_intensities, core, max_int, mass_median) ==
    IF max_int > 0 /\ Len(core) >= 3
    THEN WeightedMean(Pick(pc_masses, core), Pick(pc_intensities, core), mass_median)
    ELSE WeightedMean(pc_masses, pc_intensities, mass_median)

CoreOf(pc_intensities, max_int) ==
    Where(Len(pc_intensities), LAMBDA i : 100 * pc_intensities[i] >= 35 * max_int)

\* lines 798-810 on the cleaned per-charge masses
BroadEstimateClean(pc_masses, pc_intensities, mass_median) ==
    IF Len(pc_masses) < 3 THEN mass_median
    ELSE CoreMean(pc_masses, pc_intensities,
                  CoreOf(pc_intensities, MaxOfSeq(pc_intensities)),
                  MaxOfSeq(pc_intensities), mass_median)

\* line 797: outlier rejection among the per-charge masses
BroadEstimateKept(pc_masses, pc_intensities, kept, mass_median) ==
    BroadEstimateClean(Pick(pc_masses, kept), Pick(pc_intensities, kept), mass_median)

\* lines 786-797: one ion per charge, the most intense
BroadEstimateAt(masses, intensities, per_charge_idx, mass_median) ==
    BroadEstimateKept(Pick(masses, per_charge_idx), Pick(intensities, per_charge_idx),
                      RejectMassOutliers(Pick(masses, per_charge_idx)), mass_median)

\* lines 777-781: the median of the inliers for narrow envelopes
EstimateFrom(masses, intensities, charges, mass_median, broad_charge_threshold) ==
    IF Cardinality(SeqToSet(charges)) < broad_charge_threshold THEN mass_median
    ELSE BroadEstimateAt(masses, intensities, PerChargeBest(charges, intensities),
                         mass_median)

EstimateClean(masses, intensities, charges, masses_clean, broad_charge_threshold) ==
    IF Len(masses_clean) = 0 THEN Median(masses)
    ELSE EstimateFrom(masses, intensities, charges, Median(masses_clean),
                      broad_charge_threshold)

EstimateArrays(masses, intensities, charges, broad_charge_threshold) ==
    EstimateClean(masses, intensities, charges,
                  Pick(masses, RejectMassOutliers(masses)), broad_charge_threshold)

\* _estimate_component_mass(ions).  An empty ion list gives NaN in the
\* source; callers never pass one.
EstimateComponentMass(ions, broad_charge_threshold) ==
    EstimateArrays([i \in 1..Len(ions) |-> ions[i].mass],
                   [i \in 1..Len(ions) |-> ions[i].intensity],
                   [i \in 1..Len(ions) |-> ions[i].charge],
                   broad_charge_threshold)

(***************************************************************************)
(* Charge-ladder candidate generator                                       *)
(***************************************************************************)

\* mass >= low_mw and mass <= high_mw, the bounds given in whole Daltons
\* (50000 Da is not representable in model units with 32-bit integers)
GeDa(mass, da) == mass \div MzScale >= da
LeDa(mass, da) == \/ mass \div MzScale < da
                  \/ mass \div MzScale = da /\ mass % MzScale = 0

MaxAnchors == 30
MaxResidualAnchors == 15

\* charges = np.arange(min_charge, max_charge + 1)
Charges(cfg) == [k \in 1..(cfg.max_charge - cfg.min_charge + 1) |-> cfg.min_charge + k - 1]

\* masses_matrix[p, z] = (peak_mz - PROTON_MASS) * charge
MassAt(mz, z, cfg) == (mz - ProtonMass(cfg.use_monoisotopic_proton)) * z

\* np.argmin(all_errors, axis=1) for one unmasked peak: the first charge of
\* least |masses_matrix[p, z] - M0| / M0   (M0 > 0)
BestCharge(mz, M0, cfg) ==
    LET zs == Charges(cfg)
        err(k) == Abs(MassAt(mz, zs[k], cfg) - M0)
        k0 == CHOOSE k \in 1..Len(zs) :
                /\ \A j \in 1..Len(zs) : err(k) <= err(j)
                /\ \A j \in 1..(k - 1) : err(j) > err(k)
    IN zs[k0]

\* lines 923-932 / 1110-1119: the ion record of peak p assigned charge bz
AssignedIon(p, bz, cfg) ==
    [mz |-> p.mz, intensity |-> p.intensity, charge |-> bz,
     mass |-> MassAt(p.mz, bz, cfg), index |-> p.index]

\* faulty variant of IonMatches: the mass agreement test is dropped
IonMatchesAnyMass(ion, anchor_int, M0, use_mz, cfg) ==
    /\ ion.intensity >= cfg.noise_cutoff
    /\ 100 * ion.intensity >= anchor_int * cfg.abundance_pct

\* faulty variant of IonMatches: the m/z test bounds the m/z error itself,
\* not its ratio to the predicted m/z
IonMatchesMzAbsolute(ion, anchor_int, M0, use_mz, cfg) ==
    /\ ion.intensity >= cfg.noise_cutoff
    /\ 100 * ion.intensity >= anchor_int * cfg.abundance_pct
    /\ RelLeq(Abs(ion.mass - M0), M0, cfg.mw_agreement_ppm)
    /\ use_mz => RelLeq(Abs(ion.mass - M0), ion.charge * MzScale, cfg.mw_agreement_ppm)

\* lines 909-921 (use_mz as given) and 1103-1108 (use_mz = FALSE): is the
\* peak, assigned its best charge, an ion of the hypothesis (anchor
\* intensity anchor_int, target M0)?
\*   |mz - mz_pred| / mz_pred with mz_pred = (M0 + z * PROTON) / z
\*     = |mass - M0| / (M0 + z * PROTON)
IonMatches(ion, anchor_int, M0, use_mz, cfg) ==
    /\ ion.intensity >= cfg.noise_cutoff
    /\ 100 * ion.intensity >= anchor_int * cfg.abundance_pct
    /\ RelLeq(Abs(ion.mass - M0), M0, cfg.mw_agreement_ppm)
    /\ use_mz => RelLeq(Abs(ion.mass - M0),
                        M0 + ion.charge * ProtonMass(cfg.use_monoisotopic_proton),
                        cfg.mw_agreement_ppm)

\* lines 905-932 / 1099-1119: the ion list of a hypothesis, in peak-list order
IonSet(peaks, anchor_int, M0, use_mz, cfg) ==
    SelectSeq([i \in 1..Len(peaks) |->
                  AssignedIon(peaks[i], BestCharge(peaks[i].mz, M0, cfg), cfg)],
              LAMBDA ion : IonMatches(ion, anchor_int, M0, use_mz, cfg))

IonCharges(ions) == {ions[i].charge : i \in 1..Len(ions)}
IonIndices(ions) == {ions[i].index : i \in 1..Len(ions)}

IonMzs(ions) == [i \in 1..Len(ions) |-> ions[i].mz]
IonChargeList(ions) == [i \in 1..Len(ions) |-> ions[i].charge]
IonIntensities(ions) == [i \in 1..Len(ions) |-> ions[i].intensity]

\* faulty variant of ChargeStates: sorted(...) without set(...)
ChargeStatesWithRepeats(ions) == SortAsc(IonChargeList(ions))

\* sorted(set(i['charge'] for i in ions))
ChargeStates(ions) == SetToSortedSeq(IonCharges(ions))

(***************************************************************************)
(* Envelope fit.  r2 is an exact fraction [num, den] in lowest terms.  The *)
(* coefficient of determination of a least-squares fit does not change     *)
(* when x is shifted or y is mapped affinely, so the charges are taken     *)
(* relative to the smallest one and, the intensities of one ion list       *)
(* having at most two distinct values in every spectrum of the model, the  *)
(* two values of log(intensity) are replaced by 0 and 1.                   *)
(***************************************************************************)

RECURSIVE Gcd(_, _)
Gcd(a, b) == IF b = 0 THEN a ELSE Gcd(b, a % b)

\* max(0.0, min(1.0, num / den)) for den > 0, in lowest terms
Fraction(num, den) ==
    IF num <= 0 THEN [num |-> 0, den |-> 1]
    ELSE IF num >= den THEN [num |-> 1, den |-> 1]
    ELSE [num |-> num \div Gcd(num, den), den |-> den \div Gcd(num, den)]

R2Zero == [num |-> 0, den |-> 1]
R2One == [num |-> 1, den |-> 1]

\* v ** k, with 0 ** 0 = 1
RECURSIVE Power(_, _)
Power(v, k) == IF k = 0 THEN 1 ELSE v * Power(v, k - 1)

\* sum of x[i]^k * y[i]
PowerSum(x, y, k) == SumSeq([i \in 1..Len(x) |-> Power(x[i], k) * y[i]])

\* lines 711-718: r2 = 1 - ss_res / ss_tot, 0.0 when ss_tot = 0, for y in
\* {0, 1}; sk = sum of x^k (s0 = n), tk = sum of x^k * y.  det is the
\* determinant of the normal equations of the quadratic fit, cIJ its
\* cofactors, expl = det * sum(yhat * y).
R2FromSums(s0, s1, s2, s3, s4, t0, t1, t2) ==
    LET c11 == s2 * s4 - s3 * s3
        c12 == s2 * s3 - s1 * s4
        c13 == s1 * s3 - s2 * s2
        c22 == s0 * s4 - s2 * s2
        c23 == s1 * s2 - s0 * s3
        c33 == s0 * s2 - s1 * s1
        det == s0 * c11 + s1 * c12 + s2 * c13
        expl == c11 * t0 * t0 + c22 * t1 * t1 + c33 * t2 * t2
                + 2 * (c12 * t0 * t1 + c13 * t0 * t2 + c23 * t1 * t2)
    IN IF s0 * t0 - t0 * t0 = 0 THEN R2Zero
       ELSE Fraction(s0 * expl - det * t0 * t0, det * (s0 * t0 - t0 * t0))

\* the sums over the points (x[i], y[i])
R2OfPoints(x, y) ==
    R2FromSums(Len(x), SumSeq(x),
               SumSeq([i \in 1..Len(x) |-> Power(x[i], 2)]),
               SumSeq([i \in 1..Len(x) |-> Power(x[i], 3)]),
               SumSeq([i \in 1..Len(x) |-> Power(x[i], 4)]),
               PowerSum(x, y, 0), PowerSum(x, y, 1), PowerSum(x, y, 2))

\* line 709: y = np.log(np.maximum(intensities, 1.0)), as 0 / 1 levels
LogLevels(intensities) ==
    [i \in 1..Len(intensities) |->
        IF Max2(intensities[i], 1) = Max2(MaxOfSeq(intensities), 1) THEN 1 ELSE 0]

\* _gaussian_fit_r2(charges, intensities); np.polyfit raises for x and y of
\* different length, and the except clause returns 0.0
GaussianFitR2(charges, intensities) ==
    IF Len(charges) < 3 THEN R2Zero
    ELSE IF Len(charges) # Len(intensities) THEN R2Zero
    ELSE R2OfPoints([i \in 1..Len(charges) |-> charges[i] - charges[1]],
                    LogLevels(intensities))

\* line 967: envelope_ok = r2 >= envelope_cutoff; the engine never reads it
EnvelopeOk(r2, envelope_cutoff_pct) == 100 * r2.num >= envelope_cutoff_pct * r2.den

\* faulty variant of PeaksFound: counts charges instead of ions
PeaksFoundPerCharge(ions) == Cardinality(IonCharges(ions))

\* len(ions)
PeaksFound(ions) == Len(ions)

\* the run-length loop of lines 940-947 / 1126-1133 over sorted distinct charges
RECURSIVE LongestRunFrom(_, _, _, _)
LongestRunFrom(cs, i, current, longest) ==
    IF i > Len(cs) THEN longest
    ELSE IF cs[i] = cs[i - 1] + 1
         THEN LongestRunFrom(cs, i + 1, current + 1, Max2(longest, current + 1))
         ELSE LongestRunFrom(cs, i + 1, 1, longest)

LongestRun(cs) == LongestRunFrom(cs, 2, 1, 1)

\* faulty variant of ContiguityGate: the contig_min test is dropped
ContiguityGateTiersOnly(longest, num_charges, contig_min) ==
    IF num_charges >= 8
    THEN ~(longest < Max2(contig_min, 6) \/ 100 * longest < 60 * num_charges)
    ELSE IF num_charges >= 4
         THEN ~(longest < 4 \/ 100 * longest < 60 * num_charges)
         ELSE TRUE

\* lines 937-963: the primary contiguity gate
ContiguityGate(longest, num_charges, contig_min) ==
    /\ ~(contig_min > 1 /\ longest < contig_min)
    /\ IF num_charges >= 8
       THEN ~(longest < Max2(contig_min, 6) \/ 100 * longest < 60 * num_charges)
       ELSE IF num_charges >= 4
            THEN ~(longest < 4 \/ 100 * longest < 60 * num_charges)
            ELSE TRUE

PrimaryContiguityOk(ion_charges, contig_min) ==
    ContiguityGate(LongestRun(ion_charges), Len(ion_charges), contig_min)

\* lines 1124-1135: the relaxed gate of the residual pass
ResidualContiguityOk(ion_charges) ==
    IF Len(ion_charges) >= 2 THEN ~(LongestRun(ion_charges) < 2) ELSE TRUE

NoCandidate == [none |-> TRUE]

\* lines 990-1002: the candidate record.  M0 is kept for the properties only.
PrimaryCandidate(ions, M0, anchor_idx) ==
    [mass |-> EstimateComponentMass(ions, BroadChargeThreshold),
     charge_states |-> ChargeStates(ions),
     num_charges |-> Cardinality(IonCharges(ions)),
     intensity |-> SumSeq([i \in 1..Len(ions) |-> ions[i].intensity]),
     peaks_found |-> PeaksFound(ions),
     r2 |-> GaussianFitR2(ChargeStates(ions), IonIntensities(ions)),
     anchor_idx |-> anchor_idx,
     ion_indices |-> IonIndices(ions),
     ions |-> ions,
     M0 |-> M0]

\* lines 1142-1153
ResidualCandidate(ions, M0) ==
    [mass |-> EstimateComponentMass(ions, BroadChargeThreshold),
     charge_states |-> ChargeStates(ions),
     num_charges |-> Cardinality(SeqToSet(ChargeStates(ions))),
     intensity |-> SumSeq([i \in 1..Len(ions) |-> ions[i].intensity]),
     peaks_found |-> PeaksFound(ions),
     r2 |-> GaussianFitR2(ChargeStates(ions), IonIntensities(ions)),
     ion_indices |-> IonIndices(ions),
     ions |-> ions,
     second_pass |-> TRUE,
     M0 |-> M0]

\* faulty variant of CandidateOf: the min_peaks test on the ion list is dropped
CandidateOfAnyCount(ions, M0, anchor_idx, cfg, primary) ==
    IF ions = <<>> THEN NoCandidate
    ELSE IF primary
         THEN (IF PrimaryContiguityOk(ChargeStates(ions), cfg.contig_min)
               THEN PrimaryCandidate(ions, M0, anchor_idx) ELSE NoCandidate)
         ELSE (IF ResidualContiguityOk(ChargeStates(ions))
               THEN ResidualCandidate(ions, M0) ELSE NoCandidate)

\* faulty variant of CandidateOf: a candidate whose envelope_ok is false is dropped
CandidateOfEnvelopeGated(ions, M0, anchor_idx, cfg, primary) ==
    IF Len(ions) < cfg.min_peaks THEN NoCandidate
    ELSE IF ~EnvelopeOk(GaussianFitR2(ChargeStates(ions), IonIntensities(ions)),
                        cfg.envelope_cutoff_pct)
    THEN NoCandidate
    ELSE IF primary
         THEN (IF PrimaryContiguityOk(ChargeStates(ions), cfg.contig_min)
               THEN PrimaryCandidate(ions, M0, anchor_idx) ELSE NoCandidate)
         ELSE (IF ResidualContiguityOk(ChargeStates(ions))
               THEN ResidualCandidate(ions, M0) ELSE NoCandidate)

\* lines 934-1002 / 1121-1153: the gates on the ion list of a hypothesis
CandidateOf(ions, M0, anchor_idx, cfg, primary) ==
    IF Len(ions) < cfg.min_peaks THEN NoCandidate
    ELSE IF primary
         THEN (IF PrimaryContiguityOk(ChargeStates(ions), cfg.contig_min)
               THEN PrimaryCandidate(ions, M0, anchor_idx) ELSE NoCandidate)
         ELSE (IF ResidualContiguityOk(ChargeStates(ions))
               THEN ResidualCandidate(ions, M0) ELSE NoCandidate)

\* lines 895-903 / 1094-1100: the mass range gate on the target mass M0
HypothesisAt(peaks, anchor, M0, cfg, primary) ==
    IF ~(GeDa(M0, cfg.low_mw) /\ LeDa(M0, cfg.high_mw)) THEN NoCandidate
    ELSE CandidateOf(IonSet(peaks, anchor.intensity, M0,
                            primary /\ cfg.use_mz_agreement, cfg),
                     M0, anchor.index, cfg, primary)

\* one iteration of the loops of lines 889-1003 (primary) and 1090-1153
\* (residual): the candidate of anchor a and trial charge z0, or NoCandidate
Hypothesis(peaks, a, z0, cfg, primary) ==
    HypothesisAt(peaks, peaks[a], MassAt(peaks[a].mz, z0, cfg), cfg, primary)

\* all candidates in generation order: anchors outermost, charges ascending
GenerateCandidates(peaks, max_anchors, cfg, primary) ==
    LET nz == cfg.max_charge - cfg.min_charge + 1
        na == Min2(max_anchors, Len(peaks))
        hyp == [h \in 1..(na * nz) |->
                  Hypothesis(peaks, ((h - 1) \div nz) + 1,
                             cfg.min_charge + ((h - 1) % nz), cfg, primary)]
    IN SelectSeq(hyp, LAMBDA c : c # NoCandidate)

(***************************************************************************)
(* Candidate selector                                                      *)
(***************************************************************************)

PrimaryDupPpm == 50
ResidualDupPpm == 1000

\* faulty variant of OverlapAllowed: a candidate at the limit is rejected too
OverlapAllowedBelowLimit(ion_indices, used, max_overlap_pct) ==
    100 * Cardinality(ion_indices \cap used) < max_overlap_pct * Cardinality(ion_indices)

\* faulty variant of OverlapAllowed: the overlap test is dropped
OverlapIgnored(ion_indices, used, max_overlap_pct) == TRUE

\* lines 1023-1026: overlap_count / len(ion_indices) <= max_overlap
OverlapAllowed(ion_indices, used, max_overlap_pct) ==
    100 * Cardinality(ion_indices \cap used) <= max_overlap_pct * Cardinality(ion_indices)

\* faulty variant of PrimaryMassDuplicate: the charge-state condition is dropped
PrimaryMassDuplicateAnyCharge(res, candidate) ==
    \E k \in 1..Len(res) :
        RelLess(Abs(res[k].mass - candidate.mass), candidate.mass, PrimaryDupPpm)

\* lines 1029-1039: a selected result within 50 ppm sharing a charge state
PrimaryMassDuplicate(res, candidate) ==
    \E k \in 1..Len(res) :
        /\ RelLess(Abs(res[k].mass - candidate.mass), candidate.mass, PrimaryDupPpm)
        /\ SeqToSet(res[k].charge_states) \cap SeqToSet(candidate.charge_states) # {}

\* lines 1044-1067: the result built from a selected candidate.  kind,
\* ion_indices and M0 are bookkeeping of the model for the properties; a
\* primary result of the source has no second_pass key.
PrimaryResult(candidate, min_peaks) ==
    LET ions == candidate.ions
    IN IF Len(ions) >= min_peaks
       THEN [mass |-> EstimateComponentMass(ions, BroadChargeThreshold),
             charge_states |-> ChargeStates(ions),
             num_charges |-> Cardinality(IonCharges(ions)),
             intensity |-> SumSeq(IonIntensities(ions)),
             peaks_found |-> PeaksFound(ions),
             r2 |-> candidate.r2,
             ion_mzs |-> IonMzs(ions),
             ion_charges |-> IonChargeList(ions),
             ion_intensities |-> IonIntensities(ions),
             second_pass |-> FALSE,
             kind |-> "primary",
             ion_indices |-> candidate.ion_indices,
             M0 |-> candidate.M0]
       ELSE [mass |-> candidate.mass,
             charge_states |-> candidate.charge_states,
             num_charges |-> candidate.num_charges,
             intensity |-> candidate.intensity,
             peaks_found |-> candidate.peaks_found,
             r2 |-> candidate.r2,
             ion_mzs |-> IonMzs(ions),
             ion_charges |-> IonChargeList(ions),
             ion_intensities |-> IonIntensities(ions),
             second_pass |-> FALSE,
             kind |-> "primary",
             ion_indices |-> candidate.ion_indices,
             M0 |-> candidate.M0]

\* one iteration of the loop of lines 1017-1070 on sel = [results, used_ions]
PrimaryStep(sel, candidate, cfg) ==
    IF candidate.ion_indices = {} THEN sel
    ELSE IF ~OverlapAllowed(candidate.ion_indices, sel.used_ions, cfg.max_overlap_pct)
         THEN sel
    ELSE IF PrimaryMassDuplicate(sel.results, candidate) THEN sel
    ELSE [results |-> Append(sel.results, PrimaryResult(candidate, cfg.min_peaks)),
          used_ions |-> sel.used_ions \cup candidate.ion_indices]

\* lines 1076-1081: the peaks no selected result has claimed
ResidualPeaks(peaks, used) ==
    SortByIntensity(SelectSeq(peaks, LAMBDA p : p.index \in (IonIndices(peaks) \ used)))

\* lines 1169-1173
ResidualResult(rc) ==
    [mass |-> rc.mass,
     charge_states |-> rc.charge_states,
     num_charges |-> rc.num_charges,
     intensity |-> rc.intensity,
     peaks_found |-> rc.peaks_found,
     r2 |-> rc.r2,
     ion_mzs |-> IonMzs(rc.ions),
     ion_charges |-> IonChargeList(rc.ions),
     ion_intensities |-> IonIntensities(rc.ions),
     second_pass |-> rc.second_pass,
     kind |-> "second_pass",
     ion_indices |-> rc.ion_indices,
     M0 |-> rc.M0]

\* faulty variant of ResidualMassDuplicate: a shared charge state is required too
ResidualMassDuplicateSharedCharge(res, rc) ==
    \E k \in 1..Len(res) :
        /\ RelLess(Abs(res[k].mass - rc.mass), rc.mass, ResidualDupPpm)
        /\ SeqToSet(res[k].charge_states) \cap SeqToSet(rc.charge_states) # {}

\* lines 1163-1167: any result so far within 0.1 %
ResidualMassDuplicate(res, rc) ==
    \E k \in 1..Len(res) : RelLess(Abs(res[k].mass - rc.mass), rc.mass, ResidualDupPpm)

\* one iteration of the loop of lines 1158-1175 on sel = [results, used_residual]
ResidualStep(sel, rc, cfg) ==
    IF /\ Cardinality(rc.ion_indices) > 0
       /\ ~OverlapAllowed(rc.ion_indices, sel.used_residual, cfg.max_overlap_pct)
    THEN sel
    ELSE IF ResidualMassDuplicate(sel.results, rc) THEN sel
    ELSE [results |-> Append(sel.results, ResidualResult(rc)),
          used_residual |-> sel.used_residual \cup rc.ion_indices]

(***************************************************************************)
(* Singly-charged detector                                                 *)
(***************************************************************************)

\* faulty variant of Excluded: the exclusion ranges are ignored
ExcludedNever(mz, exclude_mz_ranges) == FALSE

\* lines 1258-1265: exclude_mz_ranges is a list of (mz_min, mz_max)
Excluded(mz, exclude_mz_ranges) ==
    \E k \in 1..Len(exclude_mz_ranges) :
        exclude_mz_ranges[k][1] <= mz /\ mz <= exclude_mz_ranges[k][2]

\* lines 1267-1279
SinglyResult(p, mass) ==
    [mass |-> mass,
     charge_states |-> <<1>>,
     num_charges |-> 1,
     intensity |-> p.intensity,
     peaks_found |-> 1,
     r2 |-> R2One,
     mz |-> p.mz,
     ion_mzs |-> <<p.mz>>,
     ion_charges |-> <<1>>,
     ion_intensities |-> <<p.intensity>>,
     second_pass |-> FALSE,
     kind |-> "singly",
     ion_indices |-> {p.index},
     M0 |-> mass]

\* faulty variant of SinglyAccepts: the mass bounds are exclusive
SinglyAcceptsInsideBounds(p, max_intensity, a) ==
    /\ ~(100 * p.intensity < max_intensity * a.min_intensity_pct)
    /\ GeDa(p.mz - ProtonMass(a.use_monoisotopic_proton) - 1, a.low_mw)
    /\ LeDa(p.mz - ProtonMass(a.use_monoisotopic_proton) + 1, a.high_mw)
    /\ ~(a.exclude_mz_ranges # <<>> /\ Excluded(p.mz, a.exclude_mz_ranges))

\* lines 1242-1265: does the detector emit a component for peak p?
SinglyAccepts(p, max_intensity, a) ==
    /\ ~(100 * p.intensity < max_intensity * a.min_intensity_pct)
    /\ ~(~GeDa(p.mz - ProtonMass(a.use_monoisotopic_proton), a.low_mw)
         \/ ~LeDa(p.mz - ProtonMass(a.use_monoisotopic_proton), a.high_mw))
    /\ ~(a.exclude_mz_ranges # <<>> /\ Excluded(p.mz, a.exclude_mz_ranges))

\* lines 1267-1283: the components of the accepted peaks, most intense first
SinglyResults(kept, a) ==
    SortByIntensity([k \in 1..Len(kept) |->
        SinglyResult(kept[k], kept[k].mz - ProtonMass(a.use_monoisotopic_proton))])

\* lines 1238-1283 on a non-empty peak list
SinglyFromPeaks(peaks, max_intensity, a) ==
    SinglyResults(SelectSeq(peaks, LAMBDA p : SinglyAccepts(p, max_intensity, a)), a)

SinglyOfPeaks(peaks, a) ==
    IF peaks = <<>> THEN <<>>
    ELSE SinglyFromPeaks(peaks, MaxOfSeq(IonIntensities(peaks)), a)

\* detect_singly_charged(mz, intensity, **a)
DetectSinglyCharged(mz, intensity, a) ==
    IF Len(mz) = 0 \/ Len(intensity) = 0 THEN <<>>
    ELSE SinglyOfPeaks(PeaksAboveNoise(mz, intensity, a.noise_cutoff, a.pwhh), a)

(***************************************************************************)
(* Spectrum summing.  A sample of the model always has the shared m/z axis *)
(* (ms_mz_axis is not None); a scan is [is_array, values], is_array FALSE  *)
(* for a scan that is None.                                                *)
(***************************************************************************)

\* np.array([]), np.array([])
EmptySpectrum == [mz |-> <<>>, intensity |-> <<>>]

\* faulty variant of ScanIndices: the end of the window is exclusive
ScanIndicesOpenEnd(ms_times, start_time, end_time) ==
    Where(Len(ms_times), LAMBDA i : ms_times[i] >= start_time /\ ms_times[i] < end_time)

\* lines 312-313: np.where((ms_times >= start_time) & (ms_times <= end_time))[0]
ScanIndices(ms_times, start_time, end_time) ==
    Where(Len(ms_times), LAMBDA i : ms_times[i] >= start_time /\ ms_times[i] <= end_time)

\* lines 323-326: summed_intensities += scan for every array scan
RECURSIVE AddScans(_, _, _)
AddScans(summed_intensities, ms_scans, scan_indices) ==
    IF scan_indices = <<>> THEN summed_intensities
    ELSE LET scan == ms_scans[Head(scan_indices)]
         IN AddScans(IF scan.is_array
                     THEN [i \in 1..Len(summed_intensities) |->
                             summed_intensities[i] + scan.values[i]]
                     ELSE summed_intensities,
                     ms_scans, Tail(scan_indices))

\* sum_spectra_in_range(sample, start_time, end_time), shared-axis branch
SumSpectraInRange(s, start_time, end_time) ==
    LET scan_indices == ScanIndices(s.ms_times, start_time, end_time)
    IN IF ~s.has_ms THEN EmptySpectrum
       ELSE IF Len(scan_indices) = 0 THEN EmptySpectrum
       ELSE [mz |-> s.ms_mz_axis,
             intensity |-> AddScans([i \in 1..Len(s.ms_mz_axis) |-> 0],
                                    s.ms_scans, scan_indices)]

(***************************************************************************)
(* State.  A call of the multi-charge engine is followed step by step      *)
(* through its two selection loops; the singly-charged detector, the       *)
(* spectrum summing and the two orchestrators are one action each.  The    *)
(* variables peaks ... used_residual are the engine's local variables;     *)
(* they keep whatever the previous call left in them until the code        *)
(* assigns them again.                                                     *)
(***************************************************************************)

VARIABLES
    sample,              \* the loaded sample [has_ms, ms_times, ms_scans, ms_mz_axis]
    t_start,             \* the time window of the request: start
    t_end,               \* the time window of the request: end
    spectrum,            \* the summed spectrum [mz, intensity] the analysis calls are given
    req,                 \* the configuration (query parameters)
    gate_charges,        \* the sorted distinct charges a call of the contiguity gate is given
    call_args,           \* the arguments of a direct call of a helper function, <<>> when
                         \* no helper is called on its own
    sample_cache,        \* server.py: _sample_cache, the loaded sample of each cached path
    handlers,            \* server.py: the request handler threads, each [pc, endpoint,
                         \* folder_path, sample, result]; <<>> when the server is not followed
    pc,                  \* "idle", "primary", "residual", "returned"
    op,                  \* the operation called last
    peaks,               \* engine: peaks
    all_candidates,      \* engine: all_candidates, sorted
    cand_i,              \* engine: position of the primary selection loop
    results,             \* engine: results
    used_ions,           \* engine: used_ions
    residual_candidates, \* engine: residual_candidates, sorted
    rcand_i,             \* engine: position of the residual selection loop
    used_residual,       \* engine: used_residual
    output,              \* the value the last call returned
    outcome,             \* "ok", "error" (an HTTP error response), "none" (None
                         \* returned) or "raised" (an exception left the call)
    first_output,        \* history: <<v>> once the first call of an operation returned v
    repeat               \* history: the last call was not the first of its operation

vars == <<sample, t_start, t_end, spectrum, req, gate_charges, call_args, sample_cache, handlers,
          pc, op, peaks, all_candidates, cand_i,
          results, used_ions, residual_candidates, rcand_i, used_residual, output,
          outcome, first_output, repeat>>

request == <<sample, t_start, t_end, req, gate_charges, call_args, sample_cache, handlers>>

engine_locals == <<peaks, all_candidates, cand_i, results, used_ions,
                   residual_candidates, rcand_i, used_residual>>

(***************************************************************************)
(* The multi-charge engine as one call, and the two orchestrators          *)
(***************************************************************************)

RECURSIVE FoldPrimary(_, _, _)
FoldPrimary(cands, sel, cfg) ==
    IF cands = <<>> THEN sel
    ELSE FoldPrimary(Tail(cands), PrimaryStep(sel, Head(cands), cfg), cfg)

RECURSIVE FoldResidual(_, _, _)
FoldResidual(cands, sel, cfg) ==
    IF cands = <<>> THEN sel
    ELSE FoldResidual(Tail(cands), ResidualStep(sel, Head(cands), cfg), cfg)

\* lines 856-867: the peak list of the engine, most intense first
EnginePeaks(mz, intensity, cfg) ==
    SortByIntensity(PeaksAboveNoise(mz, intensity, cfg.noise_cutoff, cfg.pwhh))

\* faulty variant of SelectionStart: used_ions survives from the previous call
SelectionStartStale == [results |-> <<>>, used_ions |-> used_ions]

\* lines 1014-1015: results = [], used_ions = set()
SelectionStart == [results |-> <<>>, used_ions |-> {}]

\* line 1157: used_residual = set(), over the results selected so far
ResidualStart(res) == [results |-> res, used_residual |-> {}]

\* lines 1083-1175: the residual pass over residual_peaks
ResidualPass(residual_peaks, sel, cfg) ==
    IF Len(residual_peaks) >= cfg.min_peaks
    THEN FoldResidual(
             SortByQuality(GenerateCandidates(residual_peaks, MaxResidualAnchors, cfg, FALSE)),
             ResidualStart(sel.results), cfg).results
    ELSE sel.results

\* lines 1076-1175 after primary selection sel: the results with the
\* second-pass results appended
WithResidualPass(pks, sel, cfg) ==
    ResidualPass(ResidualPeaks(pks, sel.used_ions), sel, cfg)

\* lines 1005-1179: from the generated candidates to the returned list
EngineFromCandidates(pks, cands, cfg) ==
    IF cands = <<>> THEN <<>>
    ELSE SortByQuality(WithResidualPass(pks,
             FoldPrimary(SortByQuality(cands), SelectionStart, cfg), cfg))

\* lines 869-1179: from the peak list on
EngineFromPeaks(pks, cfg) ==
    IF Len(pks) < cfg.min_peaks THEN <<>>
    ELSE EngineFromCandidates(pks, GenerateCandidates(pks, MaxAnchors, cfg, TRUE), cfg)

\* deconvolute_protein_local_lcms_machine_like(mz, intensity, **cfg)
EngineRun(mz, intensity, cfg) ==
    IF Len(mz) = 0 \/ Len(intensity) = 0 THEN <<>>
    ELSE EngineFromPeaks(EnginePeaks(mz, intensity, cfg), cfg)

MinPeaksDefault == 3
MinIntensityPctDefault == 1
ExcludeMarginDa == 2
SinglyHighMwCapDa == 2000

\* server.py lines 694-711: the keyword arguments the endpoint passes on
EngineArgs(r) ==
    [min_charge |-> Max2(r.min_charge, 2),
     max_charge |-> r.max_charge,
     min_peaks |-> MinPeaksDefault,
     noise_cutoff |-> r.noise_cutoff,
     abundance_pct |-> r.abundance_pct,
     mw_agreement_ppm |-> r.mw_agreement_ppm,
     envelope_cutoff_pct |-> r.envelope_cutoff_pct,
     pwhh |-> r.pwhh,
     low_mw |-> r.low_mw,
     high_mw |-> r.high_mw,
     contig_min |-> r.contig_min,
     use_mz_agreement |-> r.use_mz_agreement,
     use_monoisotopic_proton |-> r.use_monoisotopic,
     max_overlap_pct |-> r.max_overlap_pct]

\* server.py lines 716-720 / 350-354
ExcludeRanges(components) ==
    LET with_ions == SelectSeq(components, LAMBDA c : c.ion_mzs # <<>>)
    IN [k \in 1..Len(with_ions) |->
          LET mzs == with_ions[k].ion_mzs
          IN << (CHOOSE x \in SeqToSet(mzs) : \A y \in SeqToSet(mzs) : x <= y) - Da(ExcludeMarginDa),
                MaxOfSeq(mzs) + Da(ExcludeMarginDa) >>]

\* server.py lines 722-731 / 356-365
SinglyArgs(r, exclude_ranges) ==
    [noise_cutoff |-> r.noise_cutoff,
     min_intensity_pct |-> MinIntensityPctDefault,
     low_mw |-> r.low_mw,
     high_mw |-> Min2(r.high_mw, SinglyHighMwCapDa),
     pwhh |-> r.pwhh,
     exclude_mz_ranges |-> exclude_ranges,
     use_monoisotopic_proton |-> r.use_monoisotopic]

\* server.py lines 735-748 / 368-382: the serialized component (second_pass
\* and mz are dropped; kind, ion_indices and M0 are model bookkeeping)
Serialize(c) ==
    [mass |-> c.mass,
     intensity |-> c.intensity,
     num_charges |-> c.num_charges,
     charge_states |-> c.charge_states,
     peaks_found |-> c.peaks_found,
     r2 |-> c.r2,
     ion_mzs |-> c.ion_mzs,
     ion_charges |-> c.ion_charges,
     ion_intensities |-> c.ion_intensities,
     kind |-> c.kind,
     ion_indices |-> c.ion_indices,
     M0 |-> c.M0]

SerializeAll(components) == [k \in 1..Len(components) |-> Serialize(components[k])]

\* server.py lines 713-732: components.extend(singly)
ExtendWithSingly(components, mz, intensity, r) ==
    IF r.include_singly_charged /\ r.min_charge <= 1
    THEN components \o DetectSinglyCharged(mz, intensity,
                            SinglyArgs(r, ExcludeRanges(components)))
    ELSE components

\* server.py lines 693-732
MergedComponents(mz, intensity, r) ==
    ExtendWithSingly(EngineRun(mz, intensity, EngineArgs(r)), mz, intensity, r)

\* server.py lines 693-757: the endpoint from the summed spectrum on
DeconvoluteEndpoint(mz, intensity, r) ==
    IF Len(mz) = 0 THEN [status |-> "error", components |-> <<>>]
    ELSE [status |-> "ok", components |-> SerializeAll(MergedComponents(mz, intensity, r))]

\* server.py lines 685-757: POST /api/deconvolute
DeconvoluteHandler(s, start, end, r) ==
    IF ~s.has_ms THEN [status |-> "error", components |-> <<>>]
    ELSE DeconvoluteEndpoint(SumSpectraInRange(s, start, end).mz,
                             SumSpectraInRange(s, start, end).intensity, r)

\* faulty variant of ReportFilterSort: the final sort is left out
ReportFilterOnly(serialized, r) ==
    SelectSeq(serialized, LAMBDA c : GeDa(c.mass, r.low_mw) /\ LeDa(c.mass, r.high_mw))

\* server.py lines 385-387: filter by mass, sort by abundance
ReportFilterSort(serialized, r) ==
    SortByIntensity(SelectSeq(serialized,
        LAMBDA c : GeDa(c.mass, r.low_mw) /\ LeDa(c.mass, r.high_mw)))

(***************************************************************************)
(* Inputs                                                                  *)
(***************************************************************************)

MaxPeaks == 6
MaxCharge == 5
LowIntensity == 1500
HighIntensity == 40000

\* m/z of the sampled positions that may carry a peak, in model units:
\*   120.97648 150.98170 200.99042 241.07408 301.00784 401.02527 600.92000
\*   601.06010 Da
\* They are the ions of a species near 600 Da at charges 5, 4, 3, 2 and of a
\* species near 1200 Da at charges 5, 4, 3, 2 (301.00784 belongs to both),
\* spread by up to 2.8e-4 of the mass; the last two are a pair of peaks
\* 0.14 Da apart that can both be the charge-2 ion of the heavier species.
Sites == <<24195296, 30196340, 40198084, 48214816, 60201568, 80205054,
           120184000, 120212020>>

\* the m/z axis: each of the first six sites with one sample 1 Da below and
\* one 1 Da above; the pair with one sample between its two peaks
Axis ==
    [i \in 1..(3 * (Len(Sites) - 2)) |->
        Sites[(i + 2) \div 3] + (((i - 1) % 3) - 1) * Da(1)]
    \o << Sites[Len(Sites) - 1] - Da(1),
          Sites[Len(Sites) - 1],
          (Sites[Len(Sites) - 1] + Sites[Len(Sites)]) \div 2,
          Sites[Len(Sites)],
          Sites[Len(Sites)] + Da(1) >>

\* the axis position of site k
PeakIndex(k) ==
    IF k <= Len(Sites) - 2 THEN 3 * k - 1
    ELSE IF k = Len(Sites) - 1 THEN 3 * (Len(Sites) - 2) + 2
    ELSE 3 * (Len(Sites) - 2) + 4

\* the spectrum with intensity lv[k] at site k and 0 elsewhere
SiteSpectrum(lv) ==
    [mz |-> Axis,
     intensity |-> [i \in 1..Len(Axis) |->
                      IF \E k \in 1..Len(Sites) : PeakIndex(k) = i
                      THEN lv[CHOOSE k \in 1..Len(Sites) : PeakIndex(k) = i]
                      ELSE 0]]

\* the sites that may carry an intense peak; the others are absent or weak
HighSites == {2, 3, 8}

SiteLevels(k) == IF k \in HighSites THEN {0, LowIntensity, HighIntensity}
                 ELSE {0, LowIntensity}

SiteSpectra ==
    {SiteSpectrum(lv) : lv \in
        {f \in [1..Len(Sites) -> {0, LowIntensity, HighIntensity}] :
            /\ \A k \in 1..Len(Sites) : f[k] \in SiteLevels(k)
            /\ Cardinality({k \in 1..Len(Sites) : f[k] # 0}) <= MaxPeaks}}

\* every site carries a peak below the noise cutoff of the requests
QuietSpectrum == SiteSpectrum([k \in 1..Len(Sites) |-> LowIntensity \div 3])

\* two points only
ShortSpectrum == [mz |-> <<Sites[1], Sites[1] + Da(1)>>,
                  intensity |-> <<HighIntensity, HighIntensity>>]

InputSpectra == SiteSpectra \cup {EmptySpectrum, QuietSpectrum, ShortSpectrum}

\* a sample whose only scan, at time 1, is the spectrum sp
OneScanSample(sp) ==
    [has_ms |-> TRUE,
     ms_times |-> <<1>>,
     ms_scans |-> <<[is_array |-> TRUE, values |-> sp.intensity]>>,
     ms_mz_axis |-> sp.mz]

\* the query parameters of /api/deconvolute at their defaults (server.py
\* lines 664-681), with max_charge lowered from 50 to MaxCharge.  The
\* default-report orchestrator hard-codes the same values (lines 323-347).
DefaultRequest ==
    [min_charge |-> 1,
     max_charge |-> MaxCharge,
     mw_agreement_ppm |-> 200,
     contig_min |-> 3,
     abundance_pct |-> 5,
     envelope_cutoff_pct |-> 50,
     max_overlap_pct |-> 0,
     pwhh |-> (6 * MzScale) \div 10,
     noise_cutoff |-> 1000,
     low_mw |-> 500,
     high_mw |-> 50000,
     use_mz_agreement |-> FALSE,
     use_monoisotopic |-> FALSE,
     include_singly_charged |-> TRUE]

\* _run_default_report_deconvolution: lines 323-347
ReportRequest == [DefaultRequest EXCEPT !.min_charge = 2]

\* _run_default_report_deconvolution(mz_arr, intensity_arr)
ReportComponents(components, mz, intensity) ==
    components \o DetectSinglyCharged(mz, intensity,
                      SinglyArgs(ReportRequest, ExcludeRanges(components)))

RunDefaultReport(mz, intensity) ==
    IF Len(mz) = 0 THEN <<>>
    ELSE ReportFilterSort(
             SerializeAll(ReportComponents(
                 EngineRun(mz, intensity, EngineArgs(ReportRequest)), mz, intensity)),
             ReportRequest)

Requests == {DefaultRequest}

\* a request whose mass range is inverted (high_mw <= low_mw)
InvertedRequest == [DefaultRequest EXCEPT !.low_mw = 50000, !.high_mw = 500]

MaxTime == 4

\* scan times in minutes
ScanTimes == <<1, 2, 3>>

NoScan == [is_array |-> FALSE, values |-> <<>>]
ScanA == [is_array |-> TRUE,
          values |-> SiteSpectrum(<<LowIntensity, LowIntensity, LowIntensity, 0, 0, 0, 0, 0>>).intensity]
ScanB == [is_array |-> TRUE,
          values |-> SiteSpectrum(<<0, 0, 0, LowIntensity, 0, LowIntensity, 0, LowIntensity>>).intensity]

\* SampleData after loading: ms_scans is None, or three scans on the shared axis
Samples ==
    {[has_ms |-> FALSE, ms_times |-> <<>>, ms_scans |-> <<>>, ms_mz_axis |-> <<>>]}
    \cup {[has_ms |-> TRUE, ms_times |-> ScanTimes, ms_scans |-> sc, ms_mz_axis |-> Axis] :
             sc \in [1..Len(ScanTimes) -> {NoScan, ScanA, ScanB}]}

(***************************************************************************)
(* State machine                                                           *)
(***************************************************************************)

Tracked == {"engine", "singly"}

cfg == EngineArgs(req)

StartState ==
    /\ pc = "idle"
    /\ op = "none"
    /\ peaks = <<>>
    /\ all_candidates = <<>>
    /\ cand_i = 1
    /\ results = <<>>
    /\ used_ions = {}
    /\ residual_candidates = <<>>
    /\ rcand_i = 1
    /\ used_residual = {}
    /\ output = <<>>
    /\ outcome = "ok"
    /\ first_output = [o \in Tracked |-> <<>>]
    /\ repeat = FALSE

\* no call of the contiguity gate on its own
NoGateInput == gate_charges = <<>>

\* no direct call of a helper function
NoHelperInput == call_args = <<>>

\* the request handler threads of the server are not followed
NoHandlers == sample_cache = <<>> /\ handlers = <<>>

\* a spectrum already summed from a one-scan sample
Init ==
    /\ spectrum \in InputSpectra
    /\ sample = OneScanSample(spectrum)
    /\ t_start = 1
    /\ t_end = 1
    /\ req \in Requests
    /\ NoGateInput
    /\ NoHelperInput
    /\ NoHandlers
    /\ StartState

\* the analysis functions can be called again once the previous call returned
CanCall == pc \in {"idle", "returned"}

\* an orchestrator serves one request on a freshly loaded spectrum
FreshRequest == pc = "idle"

\* a call of a tracked operation returns value
Return(o, value) ==
    /\ pc' = "returned"
    /\ output' = value
    /\ outcome' = "ok"
    /\ first_output' = IF first_output[o] = <<>>
                       THEN [first_output EXCEPT ![o] = <<value>>]
                       ELSE first_output

\* lines 1005-1015: no candidate returns at once, else the sorted candidates
\* enter the primary selection loop
EnterSelection(cands) ==
    IF cands = <<>>
    THEN /\ Return("engine", <<>>)
         /\ all_candidates' = cands
         /\ UNCHANGED <<cand_i, results, used_ions,
                        residual_candidates, rcand_i, used_residual>>
    ELSE /\ all_candidates' = SortByQuality(cands)
         /\ results' = SelectionStart.results
         /\ used_ions' = SelectionStart.used_ions
         /\ cand_i' = 1
         /\ pc' = "primary"
         /\ UNCHANGED <<residual_candidates, rcand_i, used_residual,
                        output, outcome, first_output>>

\* lines 856-1003: the peak list, then the candidates of every hypothesis
EnterEngine(pks) ==
    /\ peaks' = pks
    /\ IF Len(pks) < cfg.min_peaks
       THEN /\ Return("engine", <<>>)
            /\ UNCHANGED <<all_candidates, cand_i, results, used_ions,
                           residual_candidates, rcand_i, used_residual>>
       ELSE EnterSelection(GenerateCandidates(pks, MaxAnchors, cfg, TRUE))

\* lines 846-1015: the engine from its entry to the start of the primary
\* selection loop, or to one of its three early returns
CallEngine ==
    /\ CanCall
    /\ op' = "engine"
    /\ repeat' = (first_output["engine"] # <<>>)
    /\ UNCHANGED <<spectrum, request>>
    /\ IF Len(spectrum.mz) = 0 \/ Len(spectrum.intensity) = 0
       THEN /\ Return("engine", <<>>)
            /\ UNCHANGED engine_locals
       ELSE EnterEngine(EnginePeaks(spectrum.mz, spectrum.intensity, cfg))

SetSelection(sel) ==
    /\ results' = sel.results
    /\ used_ions' = sel.used_ions

\* lines 1017-1070: one candidate of the primary selection loop
PrimarySelect ==
    /\ pc = "primary"
    /\ cand_i <= Len(all_candidates)
    /\ SetSelection(PrimaryStep([results |-> results, used_ions |-> used_ions],
                                all_candidates[cand_i], cfg))
    /\ cand_i' = cand_i + 1
    /\ UNCHANGED <<spectrum, request, pc, op, peaks, all_candidates, residual_candidates,
                   rcand_i, used_residual, output, outcome, first_output, repeat>>

EnterResidual(residual_peaks) ==
    IF Len(residual_peaks) >= cfg.min_peaks
    THEN /\ residual_candidates' =
               SortByQuality(GenerateCandidates(residual_peaks, MaxResidualAnchors,
                                                cfg, FALSE))
         /\ used_residual' = ResidualStart(results).used_residual
         /\ rcand_i' = 1
         /\ pc' = "residual"
         /\ UNCHANGED <<results, output, outcome, first_output>>
    ELSE /\ results' = SortByQuality(results)
         /\ Return("engine", SortByQuality(results))
         /\ UNCHANGED <<residual_candidates, rcand_i, used_residual>>

\* lines 1076-1157 and 1177-1179: after the primary loop, either the residual
\* candidates are generated and sorted, or the results are sorted and returned
AfterPrimary ==
    /\ pc = "primary"
    /\ cand_i > Len(all_candidates)
    /\ UNCHANGED <<spectrum, request, op, peaks, all_candidates, cand_i, used_ions, repeat>>
    /\ EnterResidual(ResidualPeaks(peaks, used_ions))

SetResidualSelection(sel) ==
    /\ results' = sel.results
    /\ used_residual' = sel.used_residual

\* lines 1158-1175: one candidate of the residual selection loop
ResidualSelect ==
    /\ pc = "residual"
    /\ rcand_i <= Len(residual_candidates)
    /\ SetResidualSelection(ResidualStep(
           [results |-> results, used_residual |-> used_residual],
           residual_candidates[rcand_i], cfg))
    /\ rcand_i' = rcand_i + 1
    /\ UNCHANGED <<spectrum, request, pc, op, peaks, all_candidates, cand_i, used_ions,
                   residual_candidates, output, outcome, first_output, repeat>>

\* lines 1177-1179: the final sort and the return
EngineReturn ==
    /\ pc = "residual"
    /\ rcand_i > Len(residual_candidates)
    /\ results' = SortByQuality(results)
    /\ Return("engine", SortByQuality(results))
    /\ UNCHANGED <<spectrum, request, op, peaks, all_candidates, cand_i, used_ions,
                   residual_candidates, rcand_i, used_residual, repeat>>

\* detect_singly_charged called on the spectrum without exclusion ranges
CallSingly ==
    /\ CanCall
    /\ op' = "singly"
    /\ repeat' = (first_output["singly"] # <<>>)
    /\ Return("singly", DetectSinglyCharged(spectrum.mz, spectrum.intensity,
                                            SinglyArgs(req, <<>>)))
    /\ UNCHANGED <<spectrum, request>>
    /\ UNCHANGED engine_locals

\* sum_spectra_in_range(sample, t_start, t_end)
CallSumSpectra ==
    /\ CanCall
    /\ op' = "sum"
    /\ repeat' = FALSE
    /\ spectrum' = SumSpectraInRange(sample, t_start, t_end)
    /\ output' = <<>>
    /\ outcome' = "ok"
    /\ pc' = "returned"
    /\ UNCHANGED <<request, first_output>>
    /\ UNCHANGED engine_locals

Respond(r) ==
    /\ output' = r.components
    /\ outcome' = r.status

\* POST /api/deconvolute
CallDeconvolute ==
    /\ FreshRequest
    /\ op' = "deconvolute"
    /\ repeat' = FALSE
    /\ Respond(DeconvoluteHandler(sample, t_start, t_end, req))
    /\ spectrum' = IF sample.has_ms THEN SumSpectraInRange(sample, t_start, t_end)
                   ELSE spectrum
    /\ pc' = "returned"
    /\ UNCHANGED <<request, first_output>>
    /\ UNCHANGED engine_locals

\* _run_default_report_deconvolution
CallReport ==
    /\ FreshRequest
    /\ op' = "report"
    /\ repeat' = FALSE
    /\ output' = RunDefaultReport(spectrum.mz, spectrum.intensity)
    /\ outcome' = "ok"
    /\ pc' = "returned"
    /\ UNCHANGED <<spectrum, request, first_output>>
    /\ UNCHANGED engine_locals

Next ==
    \/ CallEngine
    \/ PrimarySelect
    \/ AfterPrimary
    \/ ResidualSelect
    \/ EngineReturn
    \/ CallSingly
    \/ CallDeconvolute
    \/ CallReport

Spec == Init /\ [][Next]_vars

\* a loaded sample and a requested time window, nothing summed yet
InitSum ==
    /\ sample \in Samples
    /\ t_start \in 0..MaxTime
    /\ t_end \in 0..MaxTime
    /\ spectrum = EmptySpectrum
    /\ req \in {DefaultRequest, InvertedRequest}
    /\ NoGateInput
    /\ NoHelperInput
    /\ NoHandlers
    /\ StartState

NextSum ==
    \/ CallSumSpectra
    \/ CallDeconvolute

SpecSum == InitSum /\ [][NextSum]_vars

(***************************************************************************)
(* Properties                                                              *)
(***************************************************************************)

(***************************************************************************)
(* The engine on its own, over several configurations.  The spectra have a *)
(* ninth site halfway between the last two sites, so that three picked     *)
(* peaks can be ions of one charge of one species.                         *)
(***************************************************************************)

\* the m/z of the ninth site, between Sites[7] and Sites[8]
MiddleSite == (Sites[Len(Sites) - 1] + Sites[Len(Sites)]) \div 2

\* the site list of the engine spectra
TripletSites == Sites \o <<MiddleSite>>

\* Axis with the last three sites separated by one sample each
TripletAxis ==
    SubSeq(Axis, 1, 3 * (Len(Sites) - 2) + 2)
    \o << (Sites[Len(Sites) - 1] + MiddleSite) \div 2,
          MiddleSite,
          (MiddleSite + Sites[Len(Sites)]) \div 2,
          Sites[Len(Sites)],
          Sites[Len(Sites)] + Da(1) >>

\* the position of site k on TripletAxis
TripletPeakIndex(k) ==
    IF k <= Len(Sites) - 1 THEN PeakIndex(k)
    ELSE IF k = Len(Sites) THEN PeakIndex(k) + 2
    ELSE PeakIndex(Len(Sites))

\* the spectrum with intensity lv[k] at site k of TripletSites and 0 elsewhere
TripletSpectrum(lv) ==
    [mz |-> TripletAxis,
     intensity |-> [i \in 1..Len(TripletAxis) |->
                      IF \E k \in 1..Len(TripletSites) : TripletPeakIndex(k) = i
                      THEN lv[CHOOSE k \in 1..Len(TripletSites) : TripletPeakIndex(k) = i]
                      ELSE 0]]

\* the three lightest sites are the charge 5, 4, 3 ions of one species; they
\* are present together, the middle one intense, or absent together
LadderSites == {1, 2, 3}

LadderLevel(k) == IF k = 2 THEN HighIntensity ELSE LowIntensity

(***************************************************************************)
(* Two species 33 mDa apart: intense peaks (charges 2, 2, 3, 4) near       *)
(* 1200.01 Da and weak peaks (charges 6, 6, 6, 5, 5) near 1200.05 Da, the  *)
(* last of them 0.23 Da heavier.  An anchor among the intense peaks leaves  *)
(* the weak ones below the abundance cutoff.                               *)
(***************************************************************************)

\* the m/z of an ion of charge z of a species of base mass 1200 Da + offset
TwinMz(offset, z) == (Da(1200) + offset) \div z + ProtonMass(FALSE)

\* ascending m/z; offsets in model units (200 units = 1 mDa)
TwinSites ==
    << TwinMz(9000, 6), TwinMz(9600, 6), TwinMz(10200, 6),
       TwinMz(8000, 5), TwinMz(54000, 5),
       TwinMz(2000, 4), TwinMz(2400, 3), TwinMz(0, 2), TwinMz(4000, 2) >>

TwinLevels == <<LowIntensity, LowIntensity, LowIntensity, LowIntensity, LowIntensity,
                HighIntensity, HighIntensity, HighIntensity, HighIntensity>>

\* one sample 1 Da below and above every cluster, one between close sites
TwinAxis ==
    << TwinSites[1] - Da(1), TwinSites[1], (TwinSites[1] + TwinSites[2]) \div 2,
       TwinSites[2], (TwinSites[2] + TwinSites[3]) \div 2, TwinSites[3],
       TwinSites[3] + Da(1),
       TwinSites[4] - Da(1), TwinSites[4], (TwinSites[4] + TwinSites[5]) \div 2,
       TwinSites[5], TwinSites[5] + Da(1),
       TwinSites[6] - Da(1), TwinSites[6], TwinSites[6] + Da(1),
       TwinSites[7] - Da(1), TwinSites[7], TwinSites[7] + Da(1),
       TwinSites[8] - Da(1), TwinSites[8], (TwinSites[8] + TwinSites[9]) \div 2,
       TwinSites[9], TwinSites[9] + Da(1) >>

\* the spectrum with the sites of the set present
TwinSpectrum(present) ==
    [mz |-> TwinAxis,
     intensity |-> [i \in 1..Len(TwinAxis) |->
                      IF \E k \in present : TwinAxis[i] = TwinSites[k]
                      THEN TwinLevels[CHOOSE k \in present : TwinAxis[i] = TwinSites[k]]
                      ELSE 0]]

\* sites that are present together or absent together
TwinGroups == {{1}, {2, 3}, {4, 5}, {6}, {7, 8}, {9}}

TwinSpectra == {TwinSpectrum(UNION groups) : groups \in SUBSET TwinGroups}

EngineSpectra ==
    {TripletSpectrum(lv) : lv \in
        {f \in [1..Len(TripletSites) -> {0, LowIntensity, HighIntensity}] :
            /\ \/ \A k \in LadderSites : f[k] = LadderLevel(k)
               \/ \A k \in LadderSites : f[k] = 0
            /\ \A k \in (1..Len(TripletSites)) \ LadderSites : f[k] \in {0, LowIntensity}
            /\ Cardinality({k \in 1..Len(TripletSites) : f[k] # 0}) <= MaxPeaks}}

\* contig_min and max_overlap of the engine configurations
ContigMins == {1, 3}
OverlapPcts == {0, 100}

EngineRequests ==
    {[DefaultRequest EXCEPT !.contig_min = c, !.max_overlap_pct = o] :
        c \in ContigMins, o \in OverlapPcts}

\* the twin spectra are analysed with one more charge state
TwinRequests == {[r EXCEPT !.max_charge = MaxCharge + 1] : r \in EngineRequests}

InitEngine ==
    /\ \/ spectrum \in EngineSpectra /\ req \in EngineRequests
       \/ spectrum \in TwinSpectra /\ req \in TwinRequests
    /\ sample = OneScanSample(spectrum)
    /\ t_start = 1
    /\ t_end = 1
    /\ NoGateInput
    /\ NoHelperInput
    /\ NoHandlers
    /\ StartState

NextEngine ==
    \/ CallEngine
    \/ PrimarySelect
    \/ AfterPrimary
    \/ ResidualSelect
    \/ EngineReturn

SpecEngine == InitEngine /\ [][NextEngine]_vars

(***************************************************************************)
(* Chromatograms.  A scan is [shape, mz, values]:                          *)
(*   "none"     None                                                       *)
(*   "array1d"  an ndarray with ndim = 1 (intensities on the shared axis)  *)
(*   "array2d"  an ndarray with ndim = 2 and columns m/z, intensity        *)
(*   "object"   an object with the attributes mz and intensity             *)
(*   "dict"     a dict with the keys mz and intensity                      *)
(*   "pair"     a list or tuple (mz, intensity)                            *)
(*   "other"    anything else                                              *)
(* A result is [status, value]: status "ok" with the returned array,       *)
(* "none" when None is returned, "raised" when an exception leaves the     *)
(* function.                                                               *)
(***************************************************************************)

Scan(shape, mz, values) == [shape |-> shape, mz |-> mz, values |-> values]

\* np.any(mask) for mask = (mz >= mz_min) & (mz <= mz_max)
AnyInWindow(mz, mz_min, mz_max) ==
    \E i \in 1..Len(mz) : mz[i] >= mz_min /\ mz[i] <= mz_max

\* np.sum(values[mask]) for mask = (mz >= mz_min) & (mz <= mz_max)
MaskedSum(mz, values, mz_min, mz_max) ==
    SumSeq(SelectSeq([i \in 1..Len(mz) |->
                        IF mz[i] >= mz_min /\ mz[i] <= mz_max THEN values[i] ELSE 0],
                     LAMBDA v : v # 0))

\* lines 69-76: one entry of the shared-axis loop (the scan fits the axis)
SharedAxisEntry(scan, ms_mz_axis, mz_min, mz_max) ==
    IF scan.shape = "none" THEN 0
    ELSE IF scan.shape = "array1d"
         THEN MaskedSum(ms_mz_axis, scan.values, mz_min, mz_max)
         ELSE 0

\* line 74: scan[mask] raises IndexError when the 1-D scan and the boolean
\* mask differ in length; the shared-axis loop has no try/except
SharedAxisRaises(ms_scans, ms_mz_axis) ==
    \E i \in 1..Len(ms_scans) :
        /\ ms_scans[i].shape = "array1d"
        /\ Len(ms_scans[i].values) # Len(ms_mz_axis)

\* lines 82-125: one entry of the per-scan loop; an exception inside the
\* try block (intensity[scan_mask] with arrays of different length) gives 0
PerScanEntry(scan, mz_min, mz_max) ==
    IF scan.shape \in {"object", "dict", "array2d", "pair"}
    THEN IF Len(scan.mz) = 0 THEN 0
         ELSE IF ~AnyInWindow(scan.mz, mz_min, mz_max) THEN 0
         ELSE IF Len(scan.values) # Len(scan.mz) THEN 0
         ELSE MaskedSum(scan.mz, scan.values, mz_min, mz_max)
    ELSE 0

\* extract_eic(sample, target_mz, window)
ExtractEic(s, target_mz, window) ==
    IF ~s.has_ms THEN [status |-> "none", value |-> <<>>]
    ELSE IF s.has_axis
    THEN IF ~AnyInWindow(s.ms_mz_axis, target_mz - window, target_mz + window)
         THEN [status |-> "ok", value |-> [i \in 1..Len(s.ms_scans) |-> 0]]
         ELSE IF SharedAxisRaises(s.ms_scans, s.ms_mz_axis)
         THEN [status |-> "raised", value |-> <<>>]
         ELSE [status |-> "ok",
               value |-> [i \in 1..Len(s.ms_scans) |->
                            SharedAxisEntry(s.ms_scans[i], s.ms_mz_axis,
                                            target_mz - window, target_mz + window)]]
    ELSE [status |-> "ok",
          value |-> [i \in 1..Len(s.ms_scans) |->
                       PerScanEntry(s.ms_scans[i], target_mz - window, target_mz + window)]]

\* lines 148-163: one entry of the TIC loop
TicEntry(scan) ==
    IF scan.shape \in {"object", "array2d", "array1d"} THEN SumSeq(scan.values) ELSE 0

\* calculate_tic(sample)
CalculateTic(s) ==
    IF s.has_tic THEN [status |-> "ok", value |-> s.tic]
    ELSE IF ~s.has_ms THEN [status |-> "none", value |-> <<>>]
    ELSE [status |-> "ok", value |-> [i \in 1..Len(s.ms_scans) |-> TicEntry(s.ms_scans[i])]]

\* data_reader.py lines 375-392: the TIC computed while loading
LoadedTic(ms_scans) ==
    [i \in 1..Len(ms_scans) |->
        IF ms_scans[i].shape \in {"object", "array2d", "array1d", "dict"}
        THEN SumSeq(ms_scans[i].values) ELSE 0]

\* m/z and intensities of a scan that carries its own m/z values
OwnMz == <<Sites[3], Sites[7], Sites[8]>>
OwnValues == <<LowIntensity, LowIntensity, HighIntensity>>

EicScans ==
    {Scan("none", <<>>, <<>>),
     Scan("array1d", <<>>, ScanA.values),
     Scan("array1d", <<>>, Tail(ScanB.values)),
     Scan("array2d", OwnMz, OwnValues),
     Scan("object", OwnMz, OwnValues),
     Scan("object", OwnMz, Tail(OwnValues)),
     Scan("dict", OwnMz, OwnValues),
     Scan("pair", OwnMz, OwnValues),
     Scan("other", <<>>, <<>>)}

\* the number of scans of a sample
EicScanCount == 2

\* SampleData: no MS data, or EicScanCount scans with or without the shared
\* axis and with or without the TIC computed while loading
EicSamples ==
    {[has_ms |-> FALSE, has_axis |-> FALSE, has_tic |-> FALSE, tic |-> <<>>,
      ms_times |-> <<>>, ms_scans |-> <<>>, ms_mz_axis |-> <<>>]}
    \cup {[has_ms |-> TRUE, has_axis |-> a, has_tic |-> t,
           tic |-> IF t THEN LoadedTic(sc) ELSE <<>>,
           ms_times |-> [i \in 1..EicScanCount |-> i], ms_scans |-> sc,
           ms_mz_axis |-> IF a THEN Axis ELSE <<>>] :
             sc \in [1..EicScanCount -> EicScans], a \in BOOLEAN, t \in BOOLEAN}

\* target m/z and window of an EIC request: on a site, on the last two
\* sites, off the axis; the window is the default 0.5
EicRequests ==
    {[target_mz |-> m, window |-> Da(1) \div 2] : m \in {Sites[3], Sites[8], Da(50)}}

\* a call of extract_eic or calculate_tic returns r
ReturnChromatogram(r) ==
    /\ pc' = "returned"
    /\ repeat' = FALSE
    /\ output' = r.value
    /\ outcome' = r.status
    /\ UNCHANGED <<request, spectrum, first_output>>
    /\ UNCHANGED engine_locals

CallExtractEic ==
    /\ CanCall
    /\ op' = "eic"
    /\ ReturnChromatogram(ExtractEic(sample, req.target_mz, req.window))

CallCalculateTic ==
    /\ CanCall
    /\ op' = "tic"
    /\ ReturnChromatogram(CalculateTic(sample))

InitEic ==
    /\ sample \in EicSamples
    /\ t_start = 0
    /\ t_end = 0
    /\ spectrum = EmptySpectrum
    /\ req \in EicRequests
    /\ NoGateInput
    /\ NoHelperInput
    /\ NoHandlers
    /\ StartState

NextEic ==
    \/ CallExtractEic
    \/ CallCalculateTic

SpecEic == InitEic /\ [][NextEic]_vars

(***************************************************************************)
(* The primary contiguity gate on its own: a pure function of the sorted   *)
(* distinct charges of an ion list and contig_min.                         *)
(***************************************************************************)

\* the largest charge and the largest contig_min the gate is called with
GateMaxCharge == 12
GateMaxContig == 7

\* sorted(set(charge of ion)) of an ion list: every non-empty set of charges
GateChargeLists == {SetToSortedSeq(S) : S \in (SUBSET (1..GateMaxCharge)) \ {{}}}

GateRequests == {[DefaultRequest EXCEPT !.contig_min = c] : c \in 0..GateMaxContig}

InitGate ==
    /\ spectrum = EmptySpectrum
    /\ sample = OneScanSample(spectrum)
    /\ t_start = 0
    /\ t_end = 0
    /\ req \in GateRequests
    /\ gate_charges \in GateChargeLists
    /\ NoHelperInput
    /\ NoHandlers
    /\ StartState

\* lines 937-963 on gate_charges: TRUE when the candidate is not skipped
CallContiguityGate ==
    /\ pc = "idle"
    /\ op' = "gate"
    /\ pc' = "returned"
    /\ repeat' = FALSE
    /\ output' = <<PrimaryContiguityOk(gate_charges, req.contig_min)>>
    /\ outcome' = "ok"
    /\ UNCHANGED <<request, spectrum, first_output>>
    /\ UNCHANGED engine_locals

NextGate == CallContiguityGate

SpecGate == InitGate /\ [][NextGate]_vars

(***************************************************************************)
(* _find_peaks_simple on its own: a pure function of an intensity array    *)
(* and min_distance_pts.                                                   *)
(***************************************************************************)

\* the longest array, the largest intensity and the largest min_distance_pts
\* the peak finder is called with
PeakArrayLen == 5
PeakMaxLevel == 2
PeakMaxDistance == 3

RECURSIVE ArraysOfLength(_, _)
ArraysOfLength(n, values) ==
    IF n = 0 THEN {<<>>}
    ELSE {Append(a, v) : a \in ArraysOfLength(n - 1, values), v \in values}

PeakArrays == UNION {ArraysOfLength(n, 0..PeakMaxLevel) : n \in 0..PeakArrayLen}

PeakCalls == [intensity : PeakArrays, min_distance_pts : 1..PeakMaxDistance]

InitPeaks ==
    /\ spectrum = EmptySpectrum
    /\ sample = OneScanSample(spectrum)
    /\ t_start = 0
    /\ t_end = 0
    /\ req = DefaultRequest
    /\ NoGateInput
    /\ call_args \in PeakCalls
    /\ NoHandlers
    /\ StartState

\* a helper function called with call_args returns value
ReturnHelper(o, value) ==
    /\ pc = "idle"
    /\ op' = o
    /\ pc' = "returned"
    /\ repeat' = FALSE
    /\ output' = value
    /\ outcome' = "ok"
    /\ UNCHANGED <<request, spectrum, first_output>>
    /\ UNCHANGED engine_locals

\* lines 645-669
CallFindPeaksSimple ==
    ReturnHelper("find_peaks_simple",
                 FindPeaksSimple(call_args.intensity, call_args.min_distance_pts))

NextPeaks == CallFindPeaksSimple

SpecPeaks == InitPeaks /\ [][NextPeaks]_vars

(***************************************************************************)
(* _reject_mass_outliers on its own: a pure function of the per-ion masses *)
(* and intensities of an ion list.                                         *)
(***************************************************************************)

\* the longest ion list the outlier rejection is called with
OutlierListLen == 5

\* per-ion masses around 10 Da: a tight cluster (0.04 Da apart), and ions
\* 1, 3 and 5 Da away from it
OutlierMasses ==
    {Da(10) + d : d \in {0 - Da(1), 0, MzScale \div 25, Da(1), Da(3), Da(5)}}

\* the ion lists; the intensity of an ion is its position, so that the
\* returned intensities show which ions were kept
OutlierCalls ==
    {[masses |-> m, intensities |-> [i \in 1..Len(m) |-> i]] :
        m \in UNION {ArraysOfLength(n, OutlierMasses) : n \in 0..OutlierListLen}}

InitOutliers ==
    /\ spectrum = EmptySpectrum
    /\ sample = OneScanSample(spectrum)
    /\ t_start = 0
    /\ t_end = 0
    /\ req = DefaultRequest
    /\ NoGateInput
    /\ call_args \in OutlierCalls
    /\ NoHandlers
    /\ StartState

\* lines 723-750: the filtered (masses, intensities)
CallRejectMassOutliers ==
    ReturnHelper("reject_mass_outliers",
                 [masses |-> Pick(call_args.masses, RejectMassOutliers(call_args.masses)),
                  intensities |-> Pick(call_args.intensities,
                                       RejectMassOutliers(call_args.masses))])

NextOutliers == CallRejectMassOutliers

SpecOutliers == InitOutliers /\ [][NextOutliers]_vars

(***************************************************************************)
(* _estimate_component_mass on its own: a pure function of an ion list.    *)
(* The lists are one ion per charge 1..n, optionally followed by a second  *)
(* ion of charge MiddleCharge, so that envelopes just below, at and above  *)
(* the broad-envelope threshold occur.                                     *)
(***************************************************************************)

\* how many distinct charges beyond the threshold the broadest list has, and
\* the longest of the short lists
EstimatorExtraCharges == 1
EstimatorShortLen == 5

EstimatorLengths ==
    (1..EstimatorShortLen)
        \cup ((BroadChargeThreshold - 1)..(BroadChargeThreshold + EstimatorExtraCharges))

MiddleCharge == BroadChargeThreshold \div 2

\* per-ion intensities: none, all equal, a core of four strong ions, a core
\* of two strong ions
IntensityProfiles == {"zero", "flat", "core", "pair"}

ProfileIntensity(profile, z) ==
    CASE profile = "zero" -> 0
      [] profile = "flat" -> 1
      [] profile = "core" -> IF z \in (MiddleCharge - 1)..(MiddleCharge + 2) THEN 3 ELSE 1
      [] profile = "pair" -> IF z \in MiddleCharge..(MiddleCharge + 1) THEN 3 ELSE 1

\* per-ion masses around 10 Da: all equal, a slow drift with the charge, and
\* the drift with the ion of charge MiddleCharge about 6 Da off
MassProfiles == {"equal", "outlier", "drift"}

ProfileMass(profile, z) ==
    CASE profile = "equal" -> Da(10)
      [] profile = "outlier" -> IF z = MiddleCharge THEN Da(16) ELSE Da(10) + 2000 * z
      [] profile = "drift" -> Da(10) + 2000 * z

\* the second ion of charge MiddleCharge, 1 Da lighter than the first
SecondIons == {"none", "stronger", "equal", "weaker"}

SecondIon(second, first_intensity) ==
    [mass |-> Da(9),
     charge |-> MiddleCharge,
     intensity |-> CASE second = "stronger" -> first_intensity + 1
                     [] second = "equal" -> first_intensity
                     [] second = "weaker" -> Max2(0, first_intensity - 1)]

EstimatorIons(n, intensities, masses, second) ==
    [z \in 1..n |-> [mass |-> ProfileMass(masses, z),
                     charge |-> z,
                     intensity |-> ProfileIntensity(intensities, z)]]
        \o (IF second = "none" THEN <<>>
            ELSE <<SecondIon(second, ProfileIntensity(intensities, MiddleCharge))>>)

EstimatorCalls ==
    {[ions |-> EstimatorIons(n, i, m, s)] :
        n \in EstimatorLengths, i \in IntensityProfiles, m \in MassProfiles, s \in SecondIons}

InitEstimator ==
    /\ spectrum = EmptySpectrum
    /\ sample = OneScanSample(spectrum)
    /\ t_start = 0
    /\ t_end = 0
    /\ req = DefaultRequest
    /\ NoGateInput
    /\ call_args \in EstimatorCalls
    /\ NoHandlers
    /\ StartState

\* lines 753-810 with the default broad_charge_threshold
CallEstimateComponentMass ==
    ReturnHelper("estimate_component_mass",
                 EstimateComponentMass(call_args.ions, BroadChargeThreshold))

NextEstimator == CallEstimateComponentMass

SpecEstimator == InitEstimator /\ [][NextEstimator]_vars

(***************************************************************************)
(* detect_singly_charged on its own, with every argument drawn: peaks at   *)
(* three sites (masses 240.06624, 300 and 400.01743 Da), mass bounds and   *)
(* exclusion ranges that end exactly on a peak, and an intensity           *)
(* percentage that one peak level meets exactly.                           *)
(***************************************************************************)

SinglySites == {4, 5, 6}

\* the largest noise cutoff of the calls: absent, below the cutoff, at the
\* cutoff, 5 % of the strongest level, the strongest level
SinglyNoiseCutoff == 1000

SinglyLevels ==
    {0, SinglyNoiseCutoff - 200, SinglyNoiseCutoff, 2 * SinglyNoiseCutoff,
     40 * SinglyNoiseCutoff}

SinglySpectra ==
    {SiteSpectrum([k \in 1..Len(Sites) |-> IF k \in SinglySites THEN lv[k] ELSE 0]) :
        lv \in [SinglySites -> SinglyLevels]}

SinglyExclusions ==
    {<<>>,
     << <<Sites[5], Sites[5] + Da(1)>> >>,
     << <<Sites[4] - Da(1), Sites[4]>> >>,
     << <<Sites[4] - Da(1), Sites[4] - 1>>, <<Sites[6] - 1, Sites[6] + 1>> >>}

SinglyCalls ==
    [noise_cutoff : {SinglyNoiseCutoff},
     min_intensity_pct : {1, 5},
     low_mw : {100, 300, 301},
     high_mw : {300, 2000},
     pwhh : {DefaultRequest.pwhh},
     exclude_mz_ranges : SinglyExclusions,
     use_monoisotopic_proton : {FALSE}]

InitSingly ==
    /\ spectrum \in SinglySpectra
    /\ sample = OneScanSample(spectrum)
    /\ t_start = 1
    /\ t_end = 1
    /\ req = DefaultRequest
    /\ NoGateInput
    /\ call_args \in SinglyCalls
    /\ NoHandlers
    /\ StartState

\* lines 1180-1283
CallDetectSinglyCharged ==
    ReturnHelper("detect_singly_charged",
                 DetectSinglyCharged(spectrum.mz, spectrum.intensity, call_args))

NextSingly == CallDetectSinglyCharged

SpecSingly == InitSingly /\ [][NextSingly]_vars

(***************************************************************************)
(* The minimum peak distance of the peak picker (analysis.py lines         *)
(* 852-853 and 1222-1223) on its own: a function of the m/z axis and pwhh. *)
(***************************************************************************)

\* pwhh runs over 0, 0.02, ..., 0.02 * DistancePwhhSteps Da
DistancePwhhSteps == 50

\* m/z axes with steps of 0.1, 0.25 and 1 Da, a single-point axis, an axis
\* with unequal steps, a constant and a descending axis
DistanceAxes ==
    {[i \in 1..3 |-> Da(100) + i * step] : step \in {MzScale \div 10, MzScale \div 4, MzScale}}
        \cup {<<Da(100)>>,
              <<Da(100), Da(100) + MzScale \div 10, Da(100) + MzScale \div 5, Da(101)>>,
              <<Da(100), Da(100)>>,
              <<Da(101), Da(100)>>}

DistanceCalls ==
    [mz : DistanceAxes, pwhh : {k * (MzScale \div 50) : k \in 0..DistancePwhhSteps}]

InitDistance ==
    /\ spectrum = EmptySpectrum
    /\ sample = OneScanSample(spectrum)
    /\ t_start = 0
    /\ t_end = 0
    /\ req = DefaultRequest
    /\ NoGateInput
    /\ call_args \in DistanceCalls
    /\ NoHandlers
    /\ StartState

\* lines 852-853
CallMinDistance ==
    ReturnHelper("min_distance_pts", MinDistancePts(call_args.mz, call_args.pwhh))

NextDistance == CallMinDistance

SpecDistance == InitDistance /\ [][NextDistance]_vars

(***************************************************************************)
(* server.py: the sample cache under concurrent request handlers.  The     *)
(* endpoints are plain functions, which the framework runs on threads of a *)
(* pool; a handler is followed through _get_sample statement by statement  *)
(* (the membership test of line 84, the load of lines 85-88, the store of  *)
(* line 89, the lookup of line 90), clear_cache is one statement.          *)
(***************************************************************************)

\* the number of handler threads
HandlerCount == 2

Handlers == 1..HandlerCount

\* a folder that loads and one that does not
FolderPaths == {"good.D", "bad.D"}

\* SampleData.load() returns True
LoadOk(folder_path) == folder_path = "good.D"

NoSample == [folder_path |-> "", loaded |-> FALSE, loaded_by |-> 0]

IdleHandler ==
    [pc |-> "idle", endpoint |-> "none", folder_path |-> "", sample |-> NoSample,
     result |-> "none"]

InitCache ==
    /\ spectrum = EmptySpectrum
    /\ sample = OneScanSample(spectrum)
    /\ t_start = 0
    /\ t_end = 0
    /\ req = DefaultRequest
    /\ NoGateInput
    /\ NoHelperInput
    /\ sample_cache = <<>>
    /\ handlers = [t \in Handlers |-> IdleHandler]
    /\ StartState

\* what the handler threads leave alone
analysis_state ==
    <<sample, t_start, t_end, spectrum, req, gate_charges, call_args, pc, op, peaks,
      all_candidates, cand_i, results, used_ions, residual_candidates, rcand_i,
      used_residual, output, outcome, first_output, repeat>>

\* line 84: if folder_path not in _sample_cache
BeginGetSample(t, folder_path) ==
    /\ handlers[t].pc = "idle"
    /\ handlers' = [handlers EXCEPT ![t] =
           [IdleHandler EXCEPT !.endpoint = "load_sample",
                               !.folder_path = folder_path,
                               !.pc = IF folder_path \in DOMAIN sample_cache
                                      THEN "return" ELSE "load"]]
    /\ UNCHANGED sample_cache
    /\ UNCHANGED analysis_state

\* lines 85-88: the sample is loaded; a failed load raises HTTPException(400)
LoadSample(t) ==
    /\ handlers[t].pc = "load"
    /\ handlers' = [handlers EXCEPT ![t] =
           IF LoadOk(handlers[t].folder_path)
           THEN [handlers[t] EXCEPT !.pc = "store",
                                    !.sample = [folder_path |-> handlers[t].folder_path,
                                                loaded |-> TRUE, loaded_by |-> t]]
           ELSE [handlers[t] EXCEPT !.pc = "done", !.result = "http_400"]]
    /\ UNCHANGED sample_cache
    /\ UNCHANGED analysis_state

\* line 89: _sample_cache[folder_path] = sample
StoreSample(t) ==
    /\ handlers[t].pc = "store"
    /\ sample_cache' =
           [p \in DOMAIN sample_cache \cup {handlers[t].folder_path} |->
               IF p = handlers[t].folder_path THEN handlers[t].sample ELSE sample_cache[p]]
    /\ handlers' = [handlers EXCEPT ![t].pc = "return"]
    /\ UNCHANGED analysis_state

\* line 90: return _sample_cache[folder_path]; a missing key raises KeyError
ReturnSample(t) ==
    /\ handlers[t].pc = "return"
    /\ handlers' = [handlers EXCEPT ![t] =
           IF handlers[t].folder_path \in DOMAIN sample_cache
           THEN [handlers[t] EXCEPT !.pc = "done", !.result = "ok",
                                    !.sample = sample_cache[handlers[t].folder_path]]
           ELSE [handlers[t] EXCEPT !.pc = "done", !.result = "key_error",
                                    !.sample = NoSample]]
    /\ UNCHANGED sample_cache
    /\ UNCHANGED analysis_state

\* lines 810-814: _sample_cache.clear()
ClearCache(t) ==
    /\ handlers[t].pc = "idle"
    /\ sample_cache' = <<>>
    /\ handlers' = [handlers EXCEPT ![t] =
           [IdleHandler EXCEPT !.endpoint = "clear_cache", !.pc = "done",
                               !.result = "cleared"]]
    /\ UNCHANGED analysis_state

\* the thread is given the next request
NextRequest(t) ==
    /\ handlers[t].pc = "done"
    /\ handlers' = [handlers EXCEPT ![t] = IdleHandler]
    /\ UNCHANGED sample_cache
    /\ UNCHANGED analysis_state

NextCache ==
    \E t \in Handlers :
        \/ \E folder_path \in FolderPaths : BeginGetSample(t, folder_path)
        \/ LoadSample(t)
        \/ StoreSample(t)
        \/ ReturnSample(t)
        \/ ClearCache(t)
        \/ NextRequest(t)

SpecCache == InitCache /\ [][NextCache]_vars

(***************************************************************************)
(* server.py: the default deconvolution window.  Times are binary floating *)
(* point numbers: a time is a whole number of units of 1/256 min with at   *)
(* most FloatBits significant bits, and a sum or difference of two times   *)
(* is rounded to the nearest such number, ties to even, as Python rounds   *)
(* the result of a float addition.  Intensities are exact; the smoothed    *)
(* TIC is carried times 35, the common denominator of the filter.          *)
(***************************************************************************)

\* significant bits of a float of the model
FloatBits == 6

TimeUnitsPerMinute == 256

\* the spacing of the floats around x (x >= 0): the least power of two u
\* with x < 2^FloatBits * u
RECURSIVE FloatSpacing(_, _)
FloatSpacing(x, u) == IF x < (2 ^ FloatBits) * u THEN u ELSE FloatSpacing(x, 2 * u)

\* round to nearest, ties to even
FloatRoundTo(x, u) ==
    IF 2 * (x % u) < u THEN (x \div u) * u
    ELSE IF 2 * (x % u) > u THEN (x \div u + 1) * u
    ELSE IF (x \div u) % 2 = 0 THEN (x \div u) * u
    ELSE (x \div u + 1) * u

\* the float nearest to the exact value x
Float(x) == IF x >= 0 THEN FloatRoundTo(x, FloatSpacing(x, 1))
            ELSE 0 - FloatRoundTo(0 - x, FloatSpacing(0 - x, 1))

\* the float literals of lines 281, 290 and 307-310: 1.0, 1.8, 0.30 and 0.30 / 2.0
FallbackWidth == Float(TimeUnitsPerMinute)
C4ProteinTime == Float((18 * TimeUnitsPerMinute) \div 10)
MaxWindowWidth == 2 * Float((15 * TimeUnitsPerMinute) \div 100)
HalfWidth == MaxWindowWidth \div 2

\* analysis.smooth_data(data, 5), times 35.  Fewer than five points are
\* returned as they are; five points are filtered with a window of three,
\* which a quadratic fits exactly; longer arrays get the five-point
\* quadratic Savitzky-Golay filter, whose first and last two outputs come
\* from the quadratic fitted to the first and the last five points
\* (scipy.signal.savgol_filter, mode 'interp').
SavgolWeights ==
    << <<31, 9, -3, -5, 3>>, <<9, 13, 12, 6, -5>>, <<-3, 12, 17, 12, -3>>,
       <<-5, 6, 12, 13, 9>>, <<3, -5, -3, 9, 31>> >>

SavgolAt(data, first, row) ==
    SumSeq([k \in 1..5 |-> SavgolWeights[row][k] * data[first + k - 1]])

SmoothData(data) ==
    IF Len(data) <= 5 THEN [i \in 1..Len(data) |-> 35 * data[i]]
    ELSE [i \in 1..Len(data) |->
            IF i <= 2 THEN SavgolAt(data, 1, i)
            ELSE IF i >= Len(data) - 1 THEN SavgolAt(data, Len(data) - 4, 5 - (Len(data) - i))
            ELSE SavgolAt(data, i - 2, 3)]

\* scipy.signal.find_peaks: the local maxima of y, a plateau counted once
\* at its middle (rounded down); strictly lower samples on both sides
LocalMaximaOfSignal(y) ==
    {i \in 2..(Len(y) - 1) :
        \E l \in 2..i : \E r \in i..(Len(y) - 1) :
            /\ \A j \in l..r : y[j] = y[i]
            /\ y[l - 1] < y[i]
            /\ y[r + 1] < y[i]
            /\ i = (l + r) \div 2}

\* scipy.signal.peak_prominences: the height of peak i above the higher of
\* the two lowest points between it and the nearest higher sample (or the
\* end of the signal) on either side
MinOfSet(S) == CHOOSE x \in S : \A z \in S : x <= z

Prominence(y, i) ==
    LET left == {j \in 1..i : \A m \in j..i : y[m] <= y[i]}
        right == {j \in i..Len(y) : \A m \in i..j : y[m] <= y[i]}
    IN y[i] - Max2(MinOfSet({y[j] : j \in left}), MinOfSet({y[j] : j \in right}))

\* signal.find_peaks(intensities, height = num / den * max, prominence = ...),
\* ascending
SignalFindPeaks(y, max_intensity) ==
    SetToSortedSeq({i \in LocalMaximaOfSignal(y) :
                       /\ 10 * y[i] >= 3 * max_intensity
                       /\ 10 * Prominence(y, i) >= max_intensity})

\* analysis.find_peaks(times, intensities, height_threshold=0.3,
\* prominence=0.1): time, intensity and index of every peak
FindPeaks(times, intensities) ==
    IF Len(times) < 3 THEN <<>>
    ELSE IF MaxOfSeq(intensities) = 0 THEN <<>>
    ELSE LET found == SignalFindPeaks(intensities, MaxOfSeq(intensities))
         IN [k \in 1..Len(found) |->
               [time |-> times[found[k]], intensity |-> intensities[found[k]],
                index |-> found[k]]]

\* lines 288-292: a C4 method keeps the peaks from 1.8 min on, if there are any
ProteinPeaks(found, is_c4) ==
    IF is_c4 /\ SelectSeq(found, LAMBDA p : p.time >= C4ProteinTime) # <<>>
    THEN SelectSeq(found, LAMBDA p : p.time >= C4ProteinTime)
    ELSE found

\* line 294: max(peaks, key=intensity), the first of equally intense peaks
Dominant(found) ==
    found[CHOOSE k \in 1..Len(found) :
             /\ \A j \in 1..Len(found) : found[j].intensity <= found[k].intensity
             /\ \A j \in 1..(k - 1) : found[j].intensity < found[k].intensity]

\* lines 297-303: the walks down both flanks, while above 0.48 of the peak
RECURSIVE LeftIndex(_, _, _)
LeftIndex(tic_smoothed, i, dominant_intensity) ==
    IF i > 1 /\ 100 * tic_smoothed[i] > 48 * dominant_intensity
    THEN LeftIndex(tic_smoothed, i - 1, dominant_intensity)
    ELSE i

RECURSIVE RightIndex(_, _, _)
RightIndex(tic_smoothed, i, dominant_intensity) ==
    IF i < Len(tic_smoothed) /\ 100 * tic_smoothed[i] > 48 * dominant_intensity
    THEN RightIndex(tic_smoothed, i + 1, dominant_intensity)
    ELSE i

\* lines 305-315 without the width limit
UnclippedWindow(auto_start, auto_end, peak_time, min_time, max_time) ==
    [start |-> auto_start, end |-> auto_end,
     source |-> "peak", peak_time |-> peak_time, clipped |-> FALSE]

\* lines 305-315: a window wider than 0.30 min is replaced by 0.15 min on
\* either side of the peak, clipped to the run; source, peak_time and
\* clipped are bookkeeping of the model: the return statement that produced
\* the window, the time of the dominant peak and whether line 308 was taken
ClippedWindow(auto_start, auto_end, peak_time, min_time, max_time) ==
    IF auto_end > auto_start /\ Float(auto_end - auto_start) > MaxWindowWidth
    THEN [start |-> Max2(min_time, Float(peak_time - HalfWidth)),
          end |-> Min2(max_time, Float(peak_time + HalfWidth)),
          source |-> "peak", peak_time |-> peak_time, clipped |-> TRUE]
    ELSE [start |-> auto_start, end |-> auto_end,
          source |-> "peak", peak_time |-> peak_time, clipped |-> FALSE]

WindowAround(ms_times, tic_smoothed, dominant) ==
    ClippedWindow(ms_times[LeftIndex(tic_smoothed, dominant.index, dominant.intensity)],
                  ms_times[RightIndex(tic_smoothed, dominant.index, dominant.intensity)],
                  ms_times[dominant.index], ms_times[1], ms_times[Len(ms_times)])

\* lines 281 and 286: the first minute of the run
FallbackWindow(min_time, max_time) ==
    [start |-> min_time, end |-> Min2(Float(min_time + FallbackWidth), max_time),
     source |-> "fallback"]

WindowFromPeaks(s, tic_smoothed, found) ==
    IF found = <<>> THEN FallbackWindow(s.ms_times[1], s.ms_times[Len(s.ms_times)])
    ELSE WindowAround(s.ms_times, tic_smoothed, Dominant(ProteinPeaks(found, s.is_c4_method)))

WindowFromTic(s, tic_smoothed) ==
    WindowFromPeaks(s, tic_smoothed, FindPeaks(s.ms_times, tic_smoothed))

\* _detect_deconvolution_window_for_sample(sample)
DetectDeconvolutionWindow(s) ==
    IF ~s.has_times \/ Len(s.ms_times) = 0 THEN [start |-> 0, end |-> 0, source |-> "empty"]
    ELSE IF ~s.has_tic THEN FallbackWindow(s.ms_times[1], s.ms_times[Len(s.ms_times)])
    ELSE WindowFromTic(s, SmoothData(s.tic))

\* the longest run and the largest TIC value of the samples
WindowScans == 6
WindowMaxLevel == 2

\* strictly increasing scan times, all of them floats: 1/32 min apart from
\* 0, 1/4 min apart from 0, 1/4 min apart from 1 min, and 1/4 min apart
\* after a first scan at 37/256 min
WindowTimes(n) ==
    {[i \in 1..n |-> (i - 1) * 8], [i \in 1..n |-> (i - 1) * 64],
     [i \in 1..n |-> TimeUnitsPerMinute + (i - 1) * 64],
     [i \in 1..n |-> IF i = 1 THEN 37 ELSE (i - 1) * 64]}

\* a sample whose reader found no retention times
TimelessSample ==
    [has_times |-> FALSE, ms_times |-> <<>>, has_tic |-> FALSE, tic |-> <<>>,
     is_c4_method |-> FALSE]

WindowSamples ==
    UNION {[has_times : {TRUE}, ms_times : WindowTimes(n), has_tic : BOOLEAN,
            tic : ArraysOfLength(n, 0..WindowMaxLevel), is_c4_method : BOOLEAN] :
           n \in 0..WindowScans}
    \cup {TimelessSample}

InitWindow ==
    /\ spectrum = EmptySpectrum
    /\ sample \in WindowSamples
    /\ t_start = 0
    /\ t_end = 0
    /\ req = DefaultRequest
    /\ NoGateInput
    /\ NoHelperInput
    /\ NoHandlers
    /\ StartState

\* lines 272-315
CallDetectWindow ==
    ReturnHelper("detect_window", DetectDeconvolutionWindow(sample))

NextWindow == CallDetectWindow

SpecWindow == InitWindow /\ [][NextWindow]_vars

Returned(o) == pc = "returned" /\ op = o

\* the neutral mass of the k-th ion of component c: ion.mz * z - z * proton
IonMassOf(c, k) == (c.ion_mzs[k] - ProtonMass(req.use_monoisotopic)) * c.ion_charges[k]

\* C1: with max_overlap = 0, the picked-peak index sets of the components
\* the engine returns (primary and second-pass together) are pairwise
\* disjoint, and every assigned index is one the peak picker produced for
\* the spectrum.
C1_DisjointPeakSets ==
    (Returned("engine") /\ cfg.max_overlap_pct = 0) =>
        /\ \A i, j \in 1..Len(output) :
              i # j => output[i].ion_indices \cap output[j].ion_indices = {}
        /\ \A i \in 1..Len(output) :
              output[i].ion_indices \subseteq
                  IonIndices(PeaksAboveNoise(spectrum.mz, spectrum.intensity,
                                             cfg.noise_cutoff, cfg.pwhh))

\* the engine returned a primary and a second-pass component
C1_Witness ==
    /\ Returned("engine")
    /\ cfg.max_overlap_pct = 0
    /\ \E i, j \in 1..Len(output) :
          output[i].kind = "primary" /\ output[j].kind = "second_pass"

\* C2 as stated: every ion of every component the engine returns has
\* |ion.mz*z - z*proton - component.mass| / component.mass <= mw_agreement,
\* component.mass being the reported mass.
C2_IonsAgreeWithReportedMass ==
    Returned("engine") =>
        \A i \in 1..Len(output) : \A k \in 1..Len(output[i].ion_mzs) :
            RelLeq(Abs(IonMassOf(output[i], k) - output[i].mass), output[i].mass,
                   cfg.mw_agreement_ppm)

\* C2 amended: every ion of every component the engine returns lies within
\* mw_agreement of the target mass M0 of the hypothesis (anchor peak and
\* trial charge) the component was built from, and so does the reported
\* mass, which is a median of the ion masses.
C2_IonsAgreeWithTargetMass ==
    Returned("engine") =>
        \A i \in 1..Len(output) :
            /\ \A k \in 1..Len(output[i].ion_mzs) :
                  RelLeq(Abs(IonMassOf(output[i], k) - output[i].M0), output[i].M0,
                         cfg.mw_agreement_ppm)
            /\ RelLeq(Abs(output[i].mass - output[i].M0), output[i].M0,
                      cfg.mw_agreement_ppm)

\* the engine returned a component one of whose ions is farther than
\* mw_agreement from the reported mass
C2_Witness ==
    /\ Returned("engine")
    /\ \E i \in 1..Len(output) : \E k \in 1..Len(output[i].ion_mzs) :
          /\ output[i].mass # output[i].M0
          /\ ~RelLeq(Abs(IonMassOf(output[i], k) - output[i].mass), output[i].mass,
                     cfg.mw_agreement_ppm)

\* C3: for every returned component (primary, second-pass, singly-charged)
\* charge_states is the ascending list of the distinct values of
\* ion_charges, and num_charges = number of distinct ion_charges =
\* len(charge_states).
C3_ChargeStatesSummariseIonCharges ==
    pc = "returned" =>
        \A i \in 1..Len(output) :
            /\ \A a, b \in 1..Len(output[i].charge_states) :
                  a < b => output[i].charge_states[a] < output[i].charge_states[b]
            /\ SeqToSet(output[i].charge_states) = SeqToSet(output[i].ion_charges)
            /\ output[i].num_charges = Cardinality(SeqToSet(output[i].ion_charges))
            /\ output[i].num_charges = Len(output[i].charge_states)

\* a primary component with two ions of the same charge was returned
C3_Witness ==
    /\ Returned("engine")
    /\ \E i \in 1..Len(output) :
          /\ output[i].kind = "primary"
          /\ \E a, b \in 1..Len(output[i].ion_charges) :
                a # b /\ output[i].ion_charges[a] = output[i].ion_charges[b]

\* C4: for every returned component (primary, second-pass, singly-charged)
\* peaks_found = len(ion_mzs) = len(ion_charges) = len(ion_intensities).
C4_PeaksFoundCountsIons ==
    pc = "returned" =>
        \A i \in 1..Len(output) :
            /\ output[i].peaks_found = Len(output[i].ion_mzs)
            /\ Len(output[i].ion_mzs) = Len(output[i].ion_charges)
            /\ Len(output[i].ion_charges) = Len(output[i].ion_intensities)

\* a second-pass component with more ions than charge states was returned
C4_Witness ==
    /\ Returned("engine")
    /\ \E i \in 1..Len(output) :
          /\ output[i].kind = "second_pass"
          /\ output[i].peaks_found > output[i].num_charges

\* C5: the engine and the singly-charged detector return an empty list,
\* without raising, when the spectrum is empty, when every intensity is
\* below noise_cutoff, when the spectrum has fewer points than min_peaks,
\* when fewer than min_peaks peaks survive the noise cutoff (engine), or
\* when no candidate survives the filters.
C5_EmptyListOnDegenerateInput ==
    /\ (Returned("engine") /\
          (\/ Len(spectrum.mz) = 0
           \/ \A i \in 1..Len(spectrum.intensity) : spectrum.intensity[i] < req.noise_cutoff
           \/ Len(spectrum.mz) < cfg.min_peaks
           \/ Len(PeaksAboveNoise(spectrum.mz, spectrum.intensity,
                                  cfg.noise_cutoff, cfg.pwhh)) < cfg.min_peaks
           \/ all_candidates = <<>>))
       => (output = <<>> /\ outcome = "ok")
    /\ (Returned("singly") /\
          (\/ Len(spectrum.mz) = 0
           \/ \A i \in 1..Len(spectrum.intensity) : spectrum.intensity[i] < req.noise_cutoff
           \/ Len(spectrum.mz) < cfg.min_peaks
           \/ \A i \in 1..Len(spectrum.mz) :
                 \/ spectrum.mz[i] - ProtonMass(req.use_monoisotopic) < Da(req.low_mw)
                 \/ spectrum.intensity[i] < req.noise_cutoff))
       => (output = <<>> /\ outcome = "ok")

\* the engine picked at least min_peaks peaks, no hypothesis gave a
\* candidate, and the empty list was returned
C5_Witness ==
    /\ Returned("engine")
    /\ Len(peaks) >= cfg.min_peaks
    /\ all_candidates = <<>>
    /\ output = <<>>
    /\ outcome = "ok"

\* C6 as stated: an invalid range ends in an error outcome, never in a
\* normal return value: sum_spectra_in_range with end_time <= start_time,
\* and the deconvolution with high_mw <= low_mw.
C6_InvalidRangeIsAnError ==
    (\/ Returned("sum") /\ t_end <= t_start
     \/ Returned("deconvolute") /\ req.high_mw <= req.low_mw)
       => outcome = "error"

C8_MergedSortedByQuality ==
    (Returned("deconvolute") \/ Returned("report")) =>
        \A i \in 1..(Len(output) - 1) :
            \/ output[i].num_charges > output[i + 1].num_charges
            \/ /\ output[i].num_charges = output[i + 1].num_charges
               /\ output[i].intensity >= output[i + 1].intensity

\* C8 amended: the endpoint returns the engine's components, sorted by
\* (num_charges, intensity) descending, followed by the singly-charged
\* components, sorted by intensity descending, and does not sort the merged
\* list; the default-report orchestrator sorts the merged list by intensity
\* descending alone.
C8_MergedOrder ==
    /\ Returned("deconvolute") =>
          \A i \in 1..(Len(output) - 1) :
              IF output[i].kind = "singly"
              THEN /\ output[i + 1].kind = "singly"
                   /\ output[i].intensity >= output[i + 1].intensity
              ELSE \/ output[i + 1].kind = "singly"
                   \/ output[i].num_charges > output[i + 1].num_charges
                   \/ /\ output[i].num_charges = output[i + 1].num_charges
                      /\ output[i].intensity >= output[i + 1].intensity
    /\ Returned("report") =>
          \A i \in 1..(Len(output) - 1) : output[i].intensity >= output[i + 1].intensity

\* the report lists a singly-charged component ahead of a multi-charge one
C8_Witness ==
    /\ Returned("report")
    /\ \E i, j \in 1..Len(output) :
          i < j /\ output[i].kind = "singly" /\ output[j].kind # "singly"

\* C9: in an orchestrator's merged output no singly-charged component has
\* its m/z inside [min(ion_mzs) - 2, max(ion_mzs) + 2] of a multi-charge
\* component of the same output, and no picked peak is reported both as an
\* ion of a multi-charge component and as a singly-charged component.
C9_SinglyOutsideEnvelopes ==
    (Returned("deconvolute") \/ Returned("report")) =>
        \A i, j \in 1..Len(output) :
            (output[i].kind = "singly" /\ output[j].kind # "singly") =>
                /\ ~(/\ \E a \in 1..Len(output[j].ion_mzs) :
                           output[j].ion_mzs[a] - Da(2) <= output[i].ion_mzs[1]
                     /\ \E b \in 1..Len(output[j].ion_mzs) :
                           output[i].ion_mzs[1] <= output[j].ion_mzs[b] + Da(2))
                /\ output[i].ion_indices \cap output[j].ion_indices = {}

\* the endpoint returned a multi-charge component, whose exclusion range was
\* handed to the detector, and a singly-charged component
C9_Witness ==
    /\ Returned("deconvolute")
    /\ \E i, j \in 1..Len(output) : output[i].kind = "singly" /\ output[j].kind # "singly"

\* the sum over the scans of S of their intensity at axis position pos, a
\* scan that is None counting as zero
RECURSIVE SumOfScansAt(_, _)
SumOfScansAt(S, pos) ==
    IF S = {} THEN 0
    ELSE LET i == CHOOSE x \in S : TRUE
         IN (IF sample.ms_scans[i].is_array THEN sample.ms_scans[i].values[pos] ELSE 0)
            + SumOfScansAt(S \ {i}, pos)

ScansInWindow == {i \in 1..Len(sample.ms_times) :
                     t_start <= sample.ms_times[i] /\ sample.ms_times[i] <= t_end}

\* C10: for a sample with a shared m/z axis sum_spectra_in_range returns the
\* shared axis and, at every axis position, the sum over exactly the scans
\* with t_start <= time <= t_end of that scan's intensity there; two empty
\* arrays if no scan time lies in the window.
C10_SumOverWindow ==
    (Returned("sum") /\ sample.has_ms) =>
        IF ScansInWindow = {}
        THEN spectrum.mz = <<>> /\ spectrum.intensity = <<>>
        ELSE /\ spectrum.mz = sample.ms_mz_axis
             /\ Len(spectrum.intensity) = Len(sample.ms_mz_axis)
             /\ \A pos \in 1..Len(sample.ms_mz_axis) :
                   spectrum.intensity[pos] = SumOfScansAt(ScansInWindow, pos)

\* the window starts at one scan's time and ends at another's, and both
\* scans carry intensities
C10_Witness ==
    /\ Returned("sum")
    /\ sample.has_ms
    /\ \E i, j \in ScansInWindow :
          /\ i # j
          /\ sample.ms_times[i] = t_start
          /\ sample.ms_times[j] = t_end
          /\ sample.ms_scans[i].is_array
          /\ sample.ms_scans[j].is_array
    /\ spectrum.mz # <<>>

\* the peaks the picker leaves above the noise cutoff for the spectrum of
\* the request
PickedForRequest ==
    PeaksAboveNoise(spectrum.mz, spectrum.intensity, req.noise_cutoff, req.pwhh)

\* C11: every multi-charge component returned has at least min_peaks ions;
\* with min_peaks = 3 a spectrum with exactly one or two picked peaks gives
\* no multi-charge component, and a spectrum with exactly one picked peak
\* gives at most one singly-charged component.
C11_AtLeastMinPeaksIons ==
    (pc = "returned" /\ op \in {"engine", "singly", "deconvolute", "report"}) =>
        /\ \A i \in 1..Len(output) :
              output[i].kind # "singly" => Len(output[i].ion_mzs) >= cfg.min_peaks
        /\ (cfg.min_peaks = 3 /\ Len(PickedForRequest) \in {1, 2}) =>
              \A i \in 1..Len(output) : output[i].kind = "singly"
        /\ Len(PickedForRequest) = 1 =>
              Cardinality({i \in 1..Len(output) : output[i].kind = "singly"}) <= 1

\* the endpoint returned the one singly-charged component of a spectrum with
\* a single picked peak
C11_Witness ==
    /\ Returned("deconvolute")
    /\ Len(PickedForRequest) = 1
    /\ Len(output) = 1
    /\ output[1].kind = "singly"

\* the charges of the ion set of anchor a and trial charge z0
LadderCharges(pks, a, z0) ==
    IonCharges(IonSet(pks, pks[a].intensity, MassAt(pks[a].mz, z0, cfg),
                      cfg.use_mz_agreement, cfg))

\* no two charges of S are consecutive integers
Gapped(S) == \A z \in S : z + 1 \notin S

\* the trial charges of anchor a whose target mass lies in [low_mw, high_mw]
TrialCharges(pks, a) ==
    {z0 \in cfg.min_charge..cfg.max_charge :
        /\ GeDa(MassAt(pks[a].mz, z0, cfg), cfg.low_mw)
        /\ LeDa(MassAt(pks[a].mz, z0, cfg), cfg.high_mw)}

AllLaddersGapped(pks) ==
    \A a \in 1..Len(pks) : \A z0 \in TrialCharges(pks, a) : Gapped(LadderCharges(pks, a, z0))

UnrecognisedScans ==
    {i \in 1..Len(sample.ms_scans) : sample.ms_scans[i].shape \in {"none", "other"}}

\* C13: extract_eic returns an array with one entry per scan, and so does
\* calculate_tic when there is no precomputed TIC; a scan that is None or of
\* an unrecognised shape has the entry 0 and never aborts the computation.
C13_OneEntryPerScan ==
    ((Returned("eic") \/ (Returned("tic") /\ ~sample.has_tic)) /\ sample.has_ms) =>
        /\ outcome = "ok"
        /\ Len(output) = Len(sample.ms_scans)
        /\ \A i \in UnrecognisedScans : output[i] = 0

\* values of envelope_cutoff, in percent
EnvelopeCutoffs == {0, 50, 100}

GateK == Len(gate_charges)

\* L: the length of the longest run of consecutive charges
GateL ==
    CHOOSE n \in 1..GateK :
        /\ \E a \in SeqToSet(gate_charges) : \A d \in 0..(n - 1) : a + d \in SeqToSet(gate_charges)
        /\ \A a \in SeqToSet(gate_charges) : \E d \in 0..n : a + d \notin SeqToSet(gate_charges)

\* C15 as stated: the candidate passes exactly when: if K >= 8, L >=
\* max(contig_min, 6) and L/K >= 0.60; else if K >= 4, L >= 4 and
\* L/K >= 0.60; else L >= contig_min; for every contig_min.
C15_GateAsStated ==
    Returned("gate") =>
        (output[1] <=>
            IF GateK >= 8
            THEN GateL >= Max2(req.contig_min, 6) /\ 100 * GateL >= 60 * GateK
            ELSE IF GateK >= 4
                 THEN GateL >= 4 /\ 100 * GateL >= 60 * GateK
                 ELSE GateL >= req.contig_min)

\* C15 amended: the candidate passes exactly when: if K >= 8, L >=
\* max(contig_min, 6) and L/K >= 0.60; else if K >= 4, L >=
\* max(contig_min, 4) and L/K >= 0.60; else L >= contig_min; for every
\* contig_min.
C15_GateWithContigMinInMiddleTier ==
    Returned("gate") =>
        (output[1] <=>
            IF GateK >= 8
            THEN GateL >= Max2(req.contig_min, 6) /\ 100 * GateL >= 60 * GateK
            ELSE IF GateK >= 4
                 THEN GateL >= Max2(req.contig_min, 4) /\ 100 * GateL >= 60 * GateK
                 ELSE GateL >= req.contig_min)

\* a ladder of 4 to 7 charges with L >= 4 and L/K >= 0.60 was rejected
\* because L < contig_min
C15_Witness ==
    /\ Returned("gate")
    /\ GateK >= 4
    /\ GateK < 8
    /\ GateL >= 4
    /\ 100 * GateL >= 60 * GateK
    /\ GateL < req.contig_min
    /\ output = <<FALSE>>

\* the longest run of consecutive integers in the set S of charges
LongestRunOfSet(S) ==
    CHOOSE n \in 1..Cardinality(S) :
        /\ \E a \in S : \A d \in 0..(n - 1) : a + d \in S
        /\ \A a \in S : \E d \in 0..n : a + d \notin S

\* C16: every component of the residual second pass has a charge set whose
\* longest run of consecutive charges is at least 2 and is tagged second_pass
\* = true; the components of the primary pass carry no such tag.
C16_SecondPassSpansTwoCharges ==
    Returned("engine") =>
        \A i \in 1..Len(output) :
            /\ output[i].kind = "second_pass" =>
                  /\ output[i].second_pass
                  /\ LongestRunOfSet(SeqToSet(output[i].charge_states)) >= 2
            /\ output[i].kind = "primary" => ~output[i].second_pass

\* the number of picked peaks that no component of the list out has claimed
Unclaimed(out) ==
    Cardinality(IonIndices(PickedForRequest)
                \ UNION {out[i].ion_indices : i \in 1..Len(out)})

\* C17: whenever at least min_peaks picked peaks are claimed by no selected
\* primary component, the engine runs the residual second pass before it
\* returns, also when the primary pass produced no candidate: a return of
\* the engine that leaves min_peaks or more peaks unclaimed is a return from
\* the residual pass.
C17_ResidualPassRunOnUnclaimedPeaks ==
    [][(pc' = "returned" /\ op' = "engine" /\ pc # "residual")
          => Unclaimed(output') < cfg.min_peaks]_vars

\* |a - b| / b < 5e-5, that is 20000 * |a - b| < b
Within50Ppm(a, b) == Abs(a - b) <= (b - 1) \div 20000

SharesCharge(s, c) == \E z \in SeqToSet(s.charge_states) : z \in SeqToSet(c.charge_states)

\* C18: a candidate of the primary selection that passed the overlap test is
\* rejected exactly when some selected component is within 50 ppm of its
\* mass and shares a charge state with it; hence no two primary components,
\* in selection order, are within 50 ppm (relative to the later one) and
\* share a charge state.
C18_PrimaryDuplicateTest ==
    [][/\ (/\ pc = "primary"
           /\ cand_i <= Len(all_candidates)
           /\ all_candidates[cand_i].ion_indices # {}
           /\ 100 * Cardinality(all_candidates[cand_i].ion_indices \cap used_ions)
                 <= cfg.max_overlap_pct * Cardinality(all_candidates[cand_i].ion_indices))
          => ((results' = results) <=>
                 \E k \in 1..Len(results) :
                     /\ Within50Ppm(results[k].mass, all_candidates[cand_i].mass)
                     /\ SharesCharge(results[k], all_candidates[cand_i]))
       /\ pc' \in {"primary", "residual"} =>
             \A i, j \in 1..Len(results') :
                 (i < j /\ results'[i].kind = "primary" /\ results'[j].kind = "primary")
                     => ~(/\ Within50Ppm(results'[i].mass, results'[j].mass)
                          /\ SharesCharge(results'[i], results'[j]))]_vars

\* with max_overlap = 1 a candidate was rejected as a duplicate, and two
\* selected primary components are within 50 ppm with disjoint charge sets
C18_Witness ==
    /\ pc = "primary"
    /\ op = "engine"
    /\ cfg.max_overlap_pct = 100
    /\ cand_i - 1 > Len(results)
    /\ \E i, j \in 1..Len(results) :
          /\ i < j
          /\ Within50Ppm(results[i].mass, results[j].mass)
          /\ ~SharesCharge(results[i], results[j])

\* |a - b| / b < 1e-3, that is 1000 * |a - b| < b
WithinTenthPercent(a, b) == Abs(a - b) <= (b - 1) \div 1000

\* C19: no second-pass component has a mass within 0.1 % (relative to its
\* own mass) of a component selected before it, from the primary or from the
\* residual pass, whatever their charge states.
C19_SecondPassNotNearEarlierMass ==
    /\ (pc = "residual" /\ op = "engine") =>
          \A i, j \in 1..Len(results) :
              (i < j /\ results[j].kind = "second_pass")
                  => ~WithinTenthPercent(results[i].mass, results[j].mass)
    /\ Returned("engine") =>
          \A i, j \in 1..Len(output) :
              (output[i].kind = "primary" /\ output[j].kind = "second_pass")
                  => ~WithinTenthPercent(output[i].mass, output[j].mass)

\* the residual candidate just processed passed the overlap test and was
\* not selected: a primary component with none of its charge states is
\* within 0.1 % of its mass
C19_Witness ==
    /\ pc = "residual"
    /\ op = "engine"
    /\ rcand_i > 1
    /\ 100 * Cardinality(residual_candidates[rcand_i - 1].ion_indices \cap used_residual)
          <= cfg.max_overlap_pct * Cardinality(residual_candidates[rcand_i - 1].ion_indices)
    /\ \E k \in 1..Len(results) :
          /\ results[k].kind = "primary"
          /\ WithinTenthPercent(results[k].mass, residual_candidates[rcand_i - 1].mass)
          /\ ~SharesCharge(results[k], residual_candidates[rcand_i - 1])
    /\ \A k \in 1..Len(results) :
          ~(/\ results[k].kind = "second_pass"
            /\ results[k].mass = residual_candidates[rcand_i - 1].mass
            /\ results[k].ion_indices = residual_candidates[rcand_i - 1].ion_indices)

\* the candidates cs are in (num_charges descending, intensity descending) order
InQualityOrder(cs) ==
    \A i, j \in 1..Len(cs) :
        i < j => \/ cs[i].num_charges > cs[j].num_charges
                 \/ /\ cs[i].num_charges = cs[j].num_charges
                    /\ cs[i].intensity >= cs[j].intensity

\* the union of the ion peak indices of the components rs
ClaimedBy(rs) == UNION {rs[k].ion_indices : k \in 1..Len(rs)}

\* |ion_indices & used| / |ion_indices| > max_overlap
OverlapsTooMuch(c, used) ==
    100 * Cardinality(c.ion_indices \cap used) > cfg.max_overlap_pct * Cardinality(c.ion_indices)

\* C20: the primary candidates are processed one after the other in
\* (num_charges descending, intensity descending) order; used_peaks is the
\* union of the ion indices of the selected components; a candidate is
\* rejected for overlap exactly when its overlap ratio exceeds max_overlap
\* (one that is not, and is no duplicate, is selected and its peaks are
\* claimed); used_peaks only grows and no selected component is removed.
C20_DeferredExclusiveAssignment ==
    [][/\ (pc = "primary" /\ cand_i <= Len(all_candidates)) =>
             /\ InQualityOrder(all_candidates)
             /\ used_ions = ClaimedBy(results)
             /\ cand_i' = cand_i + 1
             /\ OverlapsTooMuch(all_candidates[cand_i], used_ions)
                   => (results' = results /\ used_ions' = used_ions)
             /\ (/\ ~OverlapsTooMuch(all_candidates[cand_i], used_ions)
                 /\ ~\E k \in 1..Len(results) :
                        /\ Within50Ppm(results[k].mass, all_candidates[cand_i].mass)
                        /\ SharesCharge(results[k], all_candidates[cand_i]))
                   => /\ Len(results') = Len(results) + 1
                      /\ results'[Len(results')].ion_indices = all_candidates[cand_i].ion_indices
                      /\ used_ions' = used_ions \cup all_candidates[cand_i].ion_indices
       /\ pc \in {"primary", "residual"} =>
             /\ used_ions \subseteq used_ions'
             /\ \A k \in 1..Len(results) : \E n \in 1..Len(results') : results'[n] = results[k]
             /\ pc' = "returned" =>
                   \A k \in 1..Len(results) : \E n \in 1..Len(output') : output'[n] = results[k]
       /\ pc = "primary" => SubSeq(results', 1, Len(results)) = results]_vars

\* with max_overlap = 0 the candidate just processed shares some but not all
\* of its peaks with the selected components and was not selected
C20_Witness ==
    /\ pc = "primary"
    /\ op = "engine"
    /\ cfg.max_overlap_pct = 0
    /\ cand_i > 1
    /\ Len(results) >= 1
    /\ all_candidates[cand_i - 1].ion_indices \cap used_ions # {}
    /\ ~(all_candidates[cand_i - 1].ion_indices \subseteq used_ions)
    /\ used_ions = ClaimedBy(results)

(***************************************************************************)
(* C21                                                                     *)
(***************************************************************************)

\* the interior indices that are not below either neighbour
ReferenceCandidates(y) ==
    {i \in 2..(Len(y) - 1) : y[i] >= y[i - 1] /\ y[i] >= y[i + 1]}

\* the candidate visited first: the most intense, the lowest index among equals
VisitedFirst(y, left) ==
    CHOOSE i \in left : \A j \in left : \/ y[i] > y[j]
                                        \/ y[i] = y[j] /\ i <= j

\* the reference procedure: visit, accept unless blocked, block the
\* neighbourhood of an accepted index
RECURSIVE ReferenceAccepted(_, _, _, _)
ReferenceAccepted(y, left, accepted, d) ==
    IF left = {} THEN accepted
    ELSE LET i == VisitedFirst(y, left)
             is_blocked == \E a \in accepted : Abs(i - a) <= d - 1
         IN ReferenceAccepted(y, left \ {i},
                              IF is_blocked THEN accepted ELSE accepted \cup {i}, d)

ReferencePeaks(y, d) == SetToSortedSeq(ReferenceAccepted(y, ReferenceCandidates(y), {}, d))

\* C21: _find_peaks_simple returns, in ascending order, exactly the indices
\* the reference procedure accepts (local maxima visited by descending
\* intensity, lower index first among equals, an accepted index blocking
\* everything within min_distance_pts - 1); any two returned indices are at
\* least min_distance_pts apart and neither end of the array is returned.
C21_FindPeaksMatchesReference ==
    Returned("find_peaks_simple") =>
        /\ output = ReferencePeaks(call_args.intensity, call_args.min_distance_pts)
        /\ \A k \in 1..Len(output) :
              /\ output[k] > 1
              /\ output[k] < Len(call_args.intensity)
              /\ k > 1 => output[k] - output[k - 1] >= call_args.min_distance_pts

\* two equal maxima compete, the later one is blocked, and two peaks are returned
C21_Witness ==
    /\ Returned("find_peaks_simple")
    /\ Len(output) >= 2
    /\ \E i, j \in ReferenceCandidates(call_args.intensity) :
          /\ i < j
          /\ call_args.intensity[i] = call_args.intensity[j]
          /\ i \in SeqToSet(output)
          /\ j \notin SeqToSet(output)

(***************************************************************************)
(* C22                                                                     *)
(***************************************************************************)

\* twice the median of a non-empty list: twice the middle value of the
\* ordered list, or the sum of its two middle values
RuleMedian2(values) ==
    LET n == Len(values)
        rank(i) == Cardinality({j \in 1..n : values[j] < values[i] \/ (values[j] = values[i] /\ j <= i)})
        at(r) == values[CHOOSE i \in 1..n : rank(i) = r]
    IN IF n % 2 = 1 THEN 2 * at((n + 1) \div 2) ELSE at(n \div 2) + at(n \div 2 + 1)

\* the ions the stated rule rejects (all quantities times four):
\* |mass - med| >= 5.0 when mad < 0.1, |mass - med| >= 3 * mad otherwise
RuleRejected(masses) ==
    LET med2 == RuleMedian2(masses)
        dev2 == [i \in 1..Len(masses) |-> Abs(2 * masses[i] - med2)]
        mad4 == RuleMedian2(dev2)
    IN {i \in 1..Len(masses) :
           IF mad4 < 4 * (MzScale \div 10) THEN 2 * dev2[i] >= 4 * Da(5)
           ELSE 2 * dev2[i] >= 3 * mad4}

\* the stated rule: the survivors, or everything when fewer than three survive
RuleKept(masses) ==
    IF masses = <<>> THEN <<>>
    ELSE LET survivors == (1..Len(masses)) \ RuleRejected(masses)
         IN IF Cardinality(survivors) < 3 THEN [i \in 1..Len(masses) |-> i]
            ELSE SetToSortedSeq(survivors)

\* C22: for every ion list _reject_mass_outliers returns the ions the stated
\* rule keeps: ions at least 5.0 from the median are rejected when the mad is
\* below 0.1, ions at least 3 * mad from it otherwise, and the original
\* arrays come back when fewer than three ions would survive; lists of
\* fewer than four ions (the early return) agree with the rule as well.
C22_OutlierRejectionMatchesRule ==
    Returned("reject_mass_outliers") =>
        /\ output.masses = Pick(call_args.masses, RuleKept(call_args.masses))
        /\ output.intensities = Pick(call_args.intensities, RuleKept(call_args.masses))

\* an ion exactly at the threshold is rejected from a list of at least four ions
C22_Witness ==
    /\ Returned("reject_mass_outliers")
    /\ Len(call_args.masses) >= 4
    /\ Len(output.masses) < Len(call_args.masses)
    /\ \E i \in RuleRejected(call_args.masses) :
          Abs(2 * call_args.masses[i] - RuleMedian2(call_args.masses)) = 2 * Da(5)

\* an ion 3 Da from the median is rejected by the 3 * mad threshold
C22_WitnessThreeMad ==
    /\ Returned("reject_mass_outliers")
    /\ Len(output.masses) < Len(call_args.masses)
    /\ \E i \in RuleRejected(call_args.masses) :
          Abs(2 * call_args.masses[i] - RuleMedian2(call_args.masses)) = 2 * Da(3)

(***************************************************************************)
(* C23                                                                     *)
(***************************************************************************)

IonMasses(ions) == [i \in 1..Len(ions) |-> ions[i].mass]

DistinctCharges(ions) == {ions[i].charge : i \in 1..Len(ions)}

\* the median of the outlier-cleaned masses, doubled
CleanedMedian2(ions) == RuleMedian2(Pick(IonMasses(ions), RuleKept(IonMasses(ions))))

\* one ion per charge: the most intense of that charge, the earliest of
\* equally intense ones
Representatives(ions) ==
    {i \in 1..Len(ions) :
        \A j \in 1..Len(ions) :
            ions[j].charge = ions[i].charge =>
                \/ ions[j].intensity < ions[i].intensity
                \/ ions[j].intensity = ions[i].intensity /\ j >= i}

\* the representatives that survive the second outlier rejection
CleanedRepresentatives(ions) ==
    LET reps == SetToSortedSeq(Representatives(ions))
    IN SeqToSet(Pick(reps, RuleKept(Pick(IonMasses(ions), reps))))

\* the ions averaged: those of at least 0.35 of the largest intensity when
\* there are three or more of them, else all cleaned representatives
AveragedIons(ions) ==
    LET kept == CleanedRepresentatives(ions)
        core == {i \in kept : \A j \in kept : 100 * ions[i].intensity >= 35 * ions[j].intensity}
    IN IF Cardinality(core) >= 3 THEN core ELSE kept

RECURSIVE SumOver(_, _, _)
SumOver(ions, S, weighted) ==
    IF S = {} THEN 0
    ELSE LET i == CHOOSE i \in S : TRUE
         IN (IF weighted THEN ions[i].mass * ions[i].intensity ELSE ions[i].intensity)
                + SumOver(ions, S \ {i}, weighted)

\* value is the intensity-weighted mean of the averaged ions, in whole model units
IsWeightedMean(value, ions) ==
    LET total == SumOver(ions, AveragedIons(ions), FALSE)
        weighted == SumOver(ions, AveragedIons(ions), TRUE)
    IN /\ total > 0
       /\ value * total <= weighted
       /\ weighted < (value + 1) * total

IsBroad(ions) == Cardinality(DistinctCharges(ions)) >= 20

WithinIonMasses(value, ions) ==
    /\ \E i \in 1..Len(ions) : ions[i].mass <= value
    /\ \E i \in 1..Len(ions) : value <= ions[i].mass

\* C23 as stated: below 20 distinct charges the estimate is the median of the
\* outlier-cleaned masses; from 20 distinct charges on it is the
\* intensity-weighted mean of the per-charge representatives that survive a
\* second outlier rejection, restricted to the core when the core has three
\* ions; the estimate lies between the smallest and the largest ion mass.
C23_EstimatorAsStated ==
    Returned("estimate_component_mass") =>
        /\ ~IsBroad(call_args.ions) => 2 * output = CleanedMedian2(call_args.ions)
        /\ IsBroad(call_args.ions) => IsWeightedMean(output, call_args.ions)
        /\ WithinIonMasses(output, call_args.ions)

\* C23 (amended): as stated, except that a broad envelope whose averaged
\* ions have no intensity at all gets the median of the outlier-cleaned
\* masses, there being no weighted mean to return.
C23_EstimatorWithMedianFallback ==
    Returned("estimate_component_mass") =>
        /\ ~IsBroad(call_args.ions) => 2 * output = CleanedMedian2(call_args.ions)
        /\ IsBroad(call_args.ions) =>
              IF SumOver(call_args.ions, AveragedIons(call_args.ions), FALSE) > 0
              THEN IsWeightedMean(output, call_args.ions)
              ELSE 2 * output = CleanedMedian2(call_args.ions)
        /\ WithinIonMasses(output, call_args.ions)

\* a broad envelope with two ions of one charge, an outlier among the
\* representatives and a core of at least three ions: the weighted mean
\* differs from the median
C23_Witness ==
    /\ Returned("estimate_component_mass")
    /\ IsBroad(call_args.ions)
    /\ Len(call_args.ions) > Cardinality(DistinctCharges(call_args.ions))
    /\ CleanedRepresentatives(call_args.ions) # Representatives(call_args.ions)
    /\ AveragedIons(call_args.ions) # CleanedRepresentatives(call_args.ions)
    /\ IsWeightedMean(output, call_args.ions)
    /\ 2 * output # CleanedMedian2(call_args.ions)

\* an envelope of 19 distinct charges gets the median although its weighted
\* mean differs
C23_WitnessNarrow ==
    /\ Returned("estimate_component_mass")
    /\ Cardinality(DistinctCharges(call_args.ions)) = 19
    /\ 2 * output = CleanedMedian2(call_args.ions)
    /\ ~IsWeightedMean(output, call_args.ions)

(***************************************************************************)
(* C24                                                                     *)
(***************************************************************************)

\* the picked peaks of the call: the maxima of the spectrum that are not
\* below the noise cutoff
SinglyPicked == PeaksAboveNoise(spectrum.mz, spectrum.intensity,
                                call_args.noise_cutoff, call_args.pwhh)

\* the stated condition for peak k of the picked peaks
SinglyExpected(picked, k) ==
    /\ \A j \in 1..Len(picked) :
          100 * picked[k].intensity >= call_args.min_intensity_pct * picked[j].intensity
    /\ call_args.low_mw * MzScale <= picked[k].mz - 201568
    /\ picked[k].mz - 201568 <= call_args.high_mw * MzScale
    /\ \A r \in 1..Len(call_args.exclude_mz_ranges) :
          \/ picked[k].mz < call_args.exclude_mz_ranges[r][1]
          \/ picked[k].mz > call_args.exclude_mz_ranges[r][2]

\* C24: detect_singly_charged emits a component for a picked peak exactly
\* when the peak has at least min_intensity_pct/100 of the largest picked
\* intensity, its mass mz - proton lies in [low_mw, high_mw] and its m/z
\* lies in no exclusion range (all bounds inclusive); every component has
\* charge_states [1], num_charges 1, peaks_found 1 and r2 1.0, and the
\* output is sorted by intensity descending.
C24_SinglyEmitsExactlyQualifyingPeaks ==
    Returned("detect_singly_charged") =>
        \A picked \in {SinglyPicked} :
            /\ \A site \in SinglySites :
                  spectrum.intensity[PeakIndex(site)] >= call_args.noise_cutoff <=>
                      \E k \in 1..Len(picked) : picked[k].mz = Sites[site]
            /\ \A k \in 1..Len(picked) :
                  SinglyExpected(picked, k) <=>
                      \E i \in 1..Len(output) :
                          /\ output[i].mz = picked[k].mz
                          /\ output[i].intensity = picked[k].intensity
                          /\ output[i].mass = picked[k].mz - 201568
            /\ Len(output) = Cardinality({k \in 1..Len(picked) : SinglyExpected(picked, k)})
            /\ \A i \in 1..Len(output) :
                  /\ output[i].charge_states = <<1>>
                  /\ output[i].num_charges = 1
                  /\ output[i].peaks_found = 1
                  /\ output[i].r2 = [num |-> 1, den |-> 1]
                  /\ i > 1 => output[i - 1].intensity >= output[i].intensity

\* a call in which a peak exactly at low_mw = high_mw is emitted, a peak
\* exactly on an exclusion bound is dropped and a picked peak is too weak
C24_Witness ==
    /\ Returned("detect_singly_charged")
    /\ call_args.low_mw = 300
    /\ call_args.high_mw = 300
    /\ Len(output) = 1
    /\ output[1].mass = Da(300)
    /\ call_args.min_intensity_pct = 5
    /\ \E picked \in {SinglyPicked} :
          /\ Len(picked) = 3
          /\ \E k \in 1..3 : 100 * picked[k].intensity < 5 * output[1].intensity

\* a peak exactly on the upper bound of an exclusion range is dropped, and
\* two components come out in descending intensity
C24_WitnessExcluded ==
    /\ Returned("detect_singly_charged")
    /\ Len(output) = 2
    /\ output[1].intensity > output[2].intensity
    /\ \E picked \in {SinglyPicked} : \E k \in 1..Len(picked) :
          /\ picked[k].mz = Sites[4]
          /\ call_args.low_mw = 100
          /\ \E r \in 1..Len(call_args.exclude_mz_ranges) :
                call_args.exclude_mz_ranges[r][2] = Sites[4]

(***************************************************************************)
(* C25                                                                     *)
(***************************************************************************)

\* n / d rounded to the nearest integer, a tie going to the even neighbour
\* (Python's round), for n >= 0 and d > 0
RoundedRatio(n, d) ==
    IF 2 * (n % d) < d THEN n \div d
    ELSE IF 2 * (n % d) > d THEN n \div d + 1
    ELSE IF (n \div d) % 2 = 0 THEN n \div d
    ELSE n \div d + 1

\* the step of an axis: the median of its differences
AxisStep2(mz) == RuleMedian2([i \in 1..(Len(mz) - 1) |-> mz[i + 1] - mz[i]])

\* C25: the minimum distance between maxima is
\* max(2, round(pwhh / median(diff(mz)))), the ratio rounded to the nearest
\* integer, for every pwhh and every positive m/z step.
C25_MinDistanceRoundsToNearest ==
    (/\ Returned("min_distance_pts")
     /\ Len(call_args.mz) > 1
     /\ AxisStep2(call_args.mz) > 0) =>
        output = Max2(2, RoundedRatio(2 * call_args.pwhh, AxisStep2(call_args.mz)))

\* what the code computes: the ratio is truncated (int()), so a ratio of
\* 2.6 gives 2
C25_MinDistanceTruncates ==
    (/\ Returned("min_distance_pts")
     /\ Len(call_args.mz) > 1
     /\ AxisStep2(call_args.mz) > 0) =>
        output = Max2(2, (2 * call_args.pwhh) \div AxisStep2(call_args.mz))

\* pwhh = 0.26 Da on a 0.1 Da axis: the ratio 2.6 gives 2
C25_TruncationWitness ==
    /\ Returned("min_distance_pts")
    /\ Len(call_args.mz) > 1
    /\ AxisStep2(call_args.mz) = 2 * (MzScale \div 10)
    /\ call_args.pwhh = 13 * (MzScale \div 50)
    /\ output = 2

(***************************************************************************)
(* C26                                                                     *)
(***************************************************************************)

\* peak p, assigned its best charge for target mass M0
IonFor(p, M0) == AssignedIon(p, BestCharge(p.mz, M0, cfg), cfg)

\* C26: use_mz_agreement has no effect.  For every hypothesis (anchor and
\* trial charge) over the picked peaks, a peak that passes the
\* mass-agreement test passes the m/z-agreement test as well, and the engine
\* returns the same component list with the flag set and with it cleared.
C26_MzAgreementFlagHasNoEffect ==
    Returned("engine") =>
        /\ \A a, p \in 1..Len(peaks) : \A z0 \in SeqToSet(Charges(cfg)) :
              \A M0 \in {MassAt(peaks[a].mz, z0, cfg)} :
                  (M0 > 0 /\ IonMatches(IonFor(peaks[p], M0), peaks[a].intensity, M0, FALSE, cfg))
                      => IonMatches(IonFor(peaks[p], M0), peaks[a].intensity, M0, TRUE, cfg)
        /\ output = EngineRun(spectrum.mz, spectrum.intensity,
                              [cfg EXCEPT !.use_mz_agreement = TRUE])
        /\ output = EngineRun(spectrum.mz, spectrum.intensity,
                              [cfg EXCEPT !.use_mz_agreement = FALSE])

\* the engine returned a first-pass and a second-pass component, and an ion
\* of a first-pass component deviates from the target mass of its hypothesis
C26_Witness ==
    /\ Returned("engine")
    /\ \E i \in 1..Len(output) : output[i].second_pass
    /\ \E i \in 1..Len(output) :
          /\ ~output[i].second_pass
          /\ \E k \in 1..Len(output[i].ion_mzs) : IonMassOf(output[i], k) # output[i].M0

(***************************************************************************)
(* C27                                                                     *)
(***************************************************************************)

\* the primary candidates that survive the size and contiguity filters, in
\* generation order
SurvivingCandidates ==
    IF Len(spectrum.mz) = 0 \/ Len(spectrum.intensity) = 0 THEN <<>>
    ELSE IF Len(EnginePeaks(spectrum.mz, spectrum.intensity, cfg)) < cfg.min_peaks THEN <<>>
    ELSE GenerateCandidates(EnginePeaks(spectrum.mz, spectrum.intensity, cfg),
                            MaxAnchors, cfg, TRUE)

\* the position of the top-ranked candidate: largest num_charges, then
\* largest total intensity, then earliest generated
TopRanked(cands) ==
    CHOOSE k \in 1..Len(cands) :
        \A j \in 1..Len(cands) :
            \/ cands[j].num_charges < cands[k].num_charges
            \/ /\ cands[j].num_charges = cands[k].num_charges
               /\ cands[j].intensity < cands[k].intensity
            \/ /\ cands[j].num_charges = cands[k].num_charges
               /\ cands[j].intensity = cands[k].intensity
               /\ j >= k

\* component c is the one built from candidate cand
BuiltFrom(c, cand) ==
    /\ c.kind = "primary"
    /\ c.ion_indices = cand.ion_indices
    /\ c.M0 = cand.M0
    /\ c.charge_states = cand.charge_states
    /\ c.num_charges = cand.num_charges
    /\ c.intensity = cand.intensity
    /\ c.peaks_found = cand.peaks_found

\* C27: when a primary candidate survives the size and contiguity filters,
\* the first candidate in rank order is selected as soon as the selection
\* loop has handled it, and the returned list is non-empty and contains the
\* component built from it.
C27_TopCandidateIsReturned ==
    op = "engine" =>
        \A cands \in {SurvivingCandidates} :
            cands # <<>> =>
                /\ (pc \in {"primary", "residual"} /\ cand_i > 1) =>
                      /\ results # <<>>
                      /\ BuiltFrom(results[1], cands[TopRanked(cands)])
                /\ pc = "returned" =>
                      /\ output # <<>>
                      /\ \E i \in 1..Len(output) :
                            BuiltFrom(output[i], cands[TopRanked(cands)])

\* the engine returned the component of the top-ranked candidate although
\* that candidate was not the first one generated, and a lower-ranked
\* candidate was rejected
C27_Witness ==
    /\ Returned("engine")
    /\ \E cands \in {SurvivingCandidates} :
          /\ Len(cands) >= 2
          /\ TopRanked(cands) > 1
          /\ \E i \in 1..Len(output) : BuiltFrom(output[i], cands[TopRanked(cands)])
          /\ \E k \in 1..Len(cands) : \A i \in 1..Len(output) : ~BuiltFrom(output[i], cands[k])

(***************************************************************************)
(* C28                                                                     *)
(***************************************************************************)

\* C28: under any interleaving of _get_sample and clear_cache calls, a
\* _get_sample call for a path whose load succeeds returns a loaded sample
\* and does not fail.
C28_GetSampleOfLoadablePathSucceeds ==
    \A t \in DOMAIN handlers :
        (/\ handlers[t].pc = "done"
         /\ handlers[t].endpoint = "load_sample"
         /\ LoadOk(handlers[t].folder_path)) =>
            /\ handlers[t].result = "ok"
            /\ handlers[t].sample.loaded
            /\ handlers[t].sample.folder_path = handlers[t].folder_path

\* the rest of C28, which holds: the cache only ever holds samples whose
\* load succeeded, under their own path
C28_CacheHoldsOnlyLoadedSamples ==
    \A p \in DOMAIN sample_cache :
        /\ sample_cache[p].loaded
        /\ sample_cache[p].folder_path = p
        /\ LoadOk(p)

\* the rest of C28, which holds: a failed load raises an error and leaves
\* the cache unchanged
C28_FailedLoadLeavesCacheUnchanged ==
    [][\A t \in DOMAIN handlers :
          (handlers[t].pc = "load" /\ ~LoadOk(handlers[t].folder_path)
           /\ handlers'[t] # handlers[t]) =>
              /\ handlers'[t].result = "http_400"
              /\ sample_cache' = sample_cache]_vars

\* the cache was cleared between the store (or the membership test) of a
\* handler and its final lookup: the handler ends with a KeyError
C28_KeyErrorWitness ==
    \E t \in DOMAIN handlers :
        /\ handlers[t].pc = "done"
        /\ handlers[t].endpoint = "load_sample"
        /\ LoadOk(handlers[t].folder_path)
        /\ handlers[t].result = "key_error"

(***************************************************************************)
(* C29: the default deconvolution window                                   *)
(***************************************************************************)

WindowReturned == pc = "returned" /\ op = "detect_window"

HasRun == sample.has_times /\ Len(sample.ms_times) > 0

WindowMinTime == sample.ms_times[1]

WindowMaxTime == sample.ms_times[Len(sample.ms_times)]

\* the scan times are floats and strictly increasing
TimesAreIncreasingFloats ==
    /\ \A i \in 1..Len(sample.ms_times) : Float(sample.ms_times[i]) = sample.ms_times[i]
    /\ \A i \in 1..(Len(sample.ms_times) - 1) : sample.ms_times[i] < sample.ms_times[i + 1]

WindowInsideRun ==
    /\ WindowMinTime <= output.start
    /\ output.start <= output.end
    /\ output.end <= WindowMaxTime

PeakInsideWindow ==
    output.source = "peak" =>
        output.start < output.peak_time /\ output.peak_time < output.end

\* the width limit of the return statement that produced the window
WidthLimit == IF output.source = "peak" THEN MaxWindowWidth ELSE FallbackWidth

\* C29 as stated: for a sample with strictly increasing ms_times of the
\* length of its TIC, the detector returns (start, end) with
\* min_time <= start <= end <= max_time; a window derived from a TIC peak
\* has start < peak time < end and end - start <= 0.30, and a fallback
\* window has end - start <= 1.0.
C29_WindowWidthAsStated ==
    (WindowReturned /\ HasRun) =>
        /\ TimesAreIncreasingFloats
        /\ WindowInsideRun
        /\ PeakInsideWindow
        /\ output.end - output.start <= WidthLimit

\* C29, amended: as above, but the widths hold up to the rounding of the
\* float sums peak time - 0.15, peak time + 0.15 and min_time + 1.0: the
\* window is at most one float spacing at its end wider than 0.30 min,
\* respectively 1.0 min.
C29_WindowWidthUpToRounding ==
    (WindowReturned /\ HasRun) =>
        /\ TimesAreIncreasingFloats
        /\ WindowInsideRun
        /\ PeakInsideWindow
        /\ output.end - output.start <= WidthLimit + FloatSpacing(output.end, 1)

\* a too wide peak was cut to 0.15 min on either side and clipped at the
\* start of the run
C29_Witness ==
    /\ WindowReturned
    /\ HasRun
    /\ output.source = "peak"
    /\ output.clipped
    /\ output.start = WindowMinTime
    /\ output.end < WindowMaxTime

\* a peak window that is wider than 0.30 min by rounding
C29_WitnessRoundedPeak ==
    /\ WindowReturned
    /\ HasRun
    /\ output.source = "peak"
    /\ output.end - output.start > MaxWindowWidth

\* a fallback window that is wider than 1.0 min by rounding
C29_WitnessRoundedFallback ==
    /\ WindowReturned
    /\ HasRun
    /\ output.source = "fallback"
    /\ output.end - output.start > FallbackWidth

\* a C4 method that passes over a higher early peak
C29_WitnessC4 ==
    /\ WindowReturned
    /\ HasRun
    /\ output.source = "peak"
    /\ sample.is_c4_method
    /\ \E i \in 1..Len(sample.tic) :
          SmoothData(sample.tic)[i] > SmoothData(sample.tic)[CHOOSE k \in 1..Len(sample.ms_times) : sample.ms_times[k] = output.peak_time]

====
